---------------------------- MODULE Spec2Model ----------------------------
(***************************************************************************)
(* echovault: the memory Store (src/src/memory/db.py), the Save Pipeline   *)
(* and rebuild (src/src/memory/core.py) and the Hybrid Search Engine       *)
(* (src/src/memory/search.py).                                             *)
(*                                                                         *)
(* Texts are sequences of words (the string is the words joined by single  *)
(* spaces; the word WS stands for leading or trailing whitespace).  Real   *)
(* numbers are exact rationals <<numerator, denominator>>.  The relevance  *)
(* rank that SQLite's FTS5 computes (bm25) and the distance that vec0      *)
(* computes are inputs: a positive score per matched row, a distance >= 0  *)
(* per indexed vector.  The vec0 virtual table of sqlite-vec has a fixed   *)
(* column width and holds one vector per rowid.                            *)
(*                                                                         *)
(* The identifiers uuid4 hands out are an input of the run (uuids).  A      *)
(* reindex is a sequence of steps, each committed on its own, with the     *)
(* local variables of the call in reindexing; operations the progress      *)
(* callback calls run between the steps.                                   *)
(*                                                                         *)
(* Four specifications share the operators: Spec (saving and deleting      *)
(* memories of several projects), VecSpec (the life cycle of the vector    *)
(* index), SearchSpec (searching a populated store) and StoreSpec (the     *)
(* Store's insert_memory, update_memory and delete_memory called directly).*)
(***************************************************************************)
EXTENDS Integers, Sequences, FiniteSets, TLC

\* ------------------------------------------------------------------ bounds
MaxMem == 2
MaxUpdates == 1
SearchRows == 3

\* --------------------------------------------------------- program constants
DedupLimit == 5
MinFtsResults == 3
DefaultLimit == 5

VARIABLES
    memories,        \* table memories: rowid -> row
    memory_details,  \* table memory_details: its rows [memory_id, body] in rowid order
    memories_fts,    \* FTS5 index memories_fts: rowid -> indexed columns
    meta,            \* table meta: key -> value
    vec_tables,      \* sqlite_master entries of vec0 tables: name -> [dim, rows]
    next_rowid,      \* AUTOINCREMENT counter of memories
    vectors_available, \* MemoryService._vectors_available: "None", "True", "False"
    gateway,         \* what a call of the Embedding Gateway can do in this run
    rank,            \* the score FTS5 gives each row for the query being searched
    distance,        \* the distance vec0 gives each vector for that query
    limit,           \* the limit of the searches
    uuids,           \* what uuid4 returns in this run: rowid of the new row -> id
    reindexing,      \* the local variables of the reindex call in progress
    ret              \* what the last operation returned or raised

vars == <<memories, memory_details, memories_fts, meta, vec_tables,
          next_rowid, vectors_available, gateway, rank, distance, limit, uuids,
          reindexing, ret>>

\* -------------------------------------------------------------------- texts
WS == " "
None == <<"<None>">>
Dims == {2, 3}

LowerPairs ==
    { <<"Fix", "fix">>, <<"AUTH", "auth">>, <<"Auth", "auth">>, <<"Db", "db">>,
      <<"SECRET", "secret">>, <<"[REDACTED]", "[redacted]">> }

\* str.lower() of one word
Lower(w) == IF \E p \in LowerPairs : p[1] = w
            THEN (CHOOSE p \in LowerPairs : p[1] = w)[2]
            ELSE w

LowerText(t) == [i \in 1..Len(t) |-> Lower(t[i])]

\* str.split(): the words between whitespace
Split(t) == SelectSeq(t, LAMBDA w : w # WS)

\* str.strip(): leading and trailing whitespace removed
RECURSIVE StripLeft(_)
StripLeft(t) == IF t # <<>> /\ Head(t) = WS THEN StripLeft(Tail(t)) ELSE t

RECURSIVE StripRight(_)
StripRight(t) == IF t # <<>> /\ t[Len(t)] = WS
                 THEN StripRight(SubSeq(t, 1, Len(t) - 1))
                 ELSE t

Strip(t) == StripRight(StripLeft(t))

\* Python truthiness of Optional[str]
Truthy(t) == t # None /\ t # <<>>

OrEmpty(t) == IF t = None THEN <<>> ELSE t

Range(s) == {s[i] : i \in 1..Len(s)}

\* the pairs of tokens of which the first is the beginning of the second
PrefixPairs == { <<"sess", "session">>, <<"a", "auth">> }

\* the token of a query's prefix phrase "term"* against a token of the index
IsPrefix(term, token) == term = token \/ <<term, token>> \in PrefixPairs

\* json.dumps of a list of strings, and json.loads of its result
JsonDumps(list) == <<"[">> \o list \o <<"]">>

JsonLoads(t) == SubSeq(t, 2, Len(t) - 1)

EmptyFn == [k \in {} |-> 0]

\* f with f[k] = v
Put(f, k, v) == [x \in DOMAIN f \cup {k} |-> IF x = k THEN v ELSE f[x]]

\* f without k
Drop(f, k) == [x \in DOMAIN f \ {k} |-> f[x]]

\* identifiers: texts of the same length, as sequences of characters.  A
\* character is its code point; str(uuid4()) is made of digits and lower-case
\* letters: a1, a2, b1, b2
IdText(i) == <<96 + ((i + 1) \div 2), 50 - (i % 2)>>

\* the number of identifiers a run needs
IdCount == IF MaxMem + 1 > SearchRows THEN MaxMem + 1 ELSE SearchRows

\* uuid4 is random.  Of the first two rows, either may have the lesser
\* identifier, and the two identifiers begin with the same character or with
\* different ones: a1 a2, a2 a1, a1 b1 and b1 a2
UuidRuns ==
    { [i \in 1..IdCount |-> IdText(i)],
      [i \in 1..IdCount |-> IdText(IF i = 1 THEN 2 ELSE IF i = 2 THEN 1 ELSE i)],
      [i \in 1..IdCount |-> IdText(IF i = 2 THEN 3 ELSE IF i = 3 THEN 2 ELSE i)],
      [i \in 1..IdCount |-> IdText(IdCount + 1 - i)] }

\* uuid4 of the row being created: all identifiers have the same length
IdOf(rowid) == uuids[rowid]

\* a < b for two texts in SQLite's BINARY collation
RECURSIVE TextLess(_, _)
TextLess(a, b) ==
    IF b = <<>> THEN FALSE
    ELSE IF a = <<>> THEN TRUE
    ELSE IF Head(a) # Head(b) THEN Head(a) < Head(b)
    ELSE TextLess(Tail(a), Tail(b))

\* the characters of a LIKE pattern that stand for any one character (_) and
\* for any run of characters (%)
AnyOne == 95

AnyRun == 37

\* LIKE folds the case of the letters A to Z
Fold(c) == IF c \in 65..90 THEN c + 32 ELSE c

\* SQL: s LIKE pat
RECURSIVE Like(_, _)
Like(pat, s) ==
    IF pat = <<>> THEN s = <<>>
    ELSE IF Head(pat) = AnyRun
         THEN \E k \in 0..Len(s) : Like(Tail(pat), SubSeq(s, k + 1, Len(s)))
         ELSE /\ s # <<>>
              /\ Head(pat) = AnyOne \/ Fold(Head(pat)) = Fold(Head(s))
              /\ Like(Tail(pat), Tail(s))

\* SQL: id LIKE memory_id || '%'
IsIdPrefix(p, id) == Like(p \o <<AnyRun>>, id)

Min(S) == CHOOSE x \in S : \A y \in S : x <= y

Take(list, n) == SubSeq(list, 1, IF Len(list) < n THEN Len(list) ELSE n)

\* ------------------------------------------------------------ Store (db.py)
DB == [memories |-> memories, memory_details |-> memory_details,
       memories_fts |-> memories_fts, meta |-> meta,
       vec_tables |-> vec_tables, next_rowid |-> next_rowid]

EmptyDB == [memories |-> EmptyFn, memory_details |-> <<>>,
            memories_fts |-> EmptyFn, meta |-> EmptyFn,
            vec_tables |-> EmptyFn, next_rowid |-> 1]

Ok(db, val) == [db |-> db, exc |-> "", val |-> val]

Raise(db, exc, val) == [db |-> db, exc |-> exc, val |-> val]

has_vec_table(db) == "memories_vec" \in DOMAIN db.vec_tables

get_meta(db, key) == IF key \in DOMAIN db.meta THEN <<db.meta[key]>> ELSE <<>>

set_meta(db, key, value) == [db EXCEPT !.meta = Put(db.meta, key, value)]

\* str(dim) and int(val): the meta table holds text
IntToStr(n) == <<"str", n>>

StrToInt(t) == t[2]

\* <<>> when no dimension is recorded, else <<dim>>
get_embedding_dim(db) ==
    LET int(val) == IF val # <<>> THEN <<StrToInt(val[1])>> ELSE <<>>
    IN int(get_meta(db, "embedding_dim"))

set_embedding_dim(db, dim) == set_meta(db, "embedding_dim", IntToStr(dim))

\* CREATE VIRTUAL TABLE IF NOT EXISTS memories_vec USING vec0(embedding float[dim])
create_vec_table(db, dim) ==
    IF has_vec_table(db) THEN db
    ELSE [db EXCEPT !.vec_tables = [memories_vec |-> [dim |-> dim, rows |-> EmptyFn]]]

drop_vec_table(db) == [db EXCEPT !.vec_tables = EmptyFn]

\* MemoryDB.__init__ on an existing file: every CREATE is IF NOT EXISTS, and the
\* vector table is created when a dimension is recorded
create_schema(db) ==
    LET create(dim) == IF dim # <<>> THEN create_vec_table(db, dim[1]) ELSE db
    IN create(get_embedding_dim(db))

\* the mismatch is answered by recording the requested dimension
ensure_vec_table_overwriting(db, dim) ==
    LET decide(stored_dim) ==
            IF stored_dim = <<>>
            THEN Ok(create_vec_table(set_embedding_dim(db, dim), dim), "None")
            ELSE Ok(set_embedding_dim(db, dim), "None")
    IN decide(get_embedding_dim(db))

\* the same dimension makes the index anew, without its vectors
ensure_vec_table_recreating(db, dim) ==
    LET decide(stored_dim) ==
            IF stored_dim = <<>>
            THEN Ok(create_vec_table(set_embedding_dim(db, dim), dim), "None")
            ELSE IF stored_dim[1] # dim
                 THEN Raise(db, "DimensionMismatch",
                            [stored_dim |-> stored_dim[1], new_dim |-> dim])
                 ELSE Ok(create_vec_table(drop_vec_table(db), dim), "None")
    IN decide(get_embedding_dim(db))

ensure_vec_table(db, dim) ==
    LET decide(stored_dim) ==
            IF stored_dim = <<>>
            THEN Ok(create_vec_table(set_embedding_dim(db, dim), dim), "None")
            ELSE IF stored_dim[1] # dim
                 THEN Raise(db, "DimensionMismatch",
                            [stored_dim |-> stored_dim[1], new_dim |-> dim])
                 ELSE Ok(db, "None")
    IN decide(get_embedding_dim(db))

\* the columns the triggers memories_ai and memories_au copy into the index
FtsColumns(row) == [title |-> row.title, what |-> row.what, why |-> row.why,
                    impact |-> row.impact, tags |-> row.tags,
                    project |-> row.project]

\* the row INSERT INTO memories writes for mem
MemoryRow(mem) == [id |-> mem.id, title |-> mem.title, what |-> mem.what,
                   why |-> mem.why, impact |-> mem.impact,
                   tags |-> JsonDumps(mem.tags), project |-> mem.project,
                   updated_count |-> 0]

insert_memory(db, mem, details) ==
    LET store(rowid, row) ==
            Ok([db EXCEPT !.memories = Put(db.memories, rowid, row),
                          !.memories_fts = Put(db.memories_fts, rowid, FtsColumns(row)),
                          !.memory_details =
                              IF Truthy(details)
                              THEN Append(db.memory_details,
                                          [memory_id |-> mem.id, body |-> details])
                              ELSE db.memory_details,
                          !.next_rowid = rowid + 1],
               rowid)
    IN store(db.next_rowid, MemoryRow(mem))

\* INSERT INTO memories_vec: vec0 rejects a vector whose length is not the
\* column's and a rowid it already holds
insert_vector(db, rowid, embedding) ==
    IF ~has_vec_table(db) THEN Ok(db, "None")
    ELSE IF embedding.len # db.vec_tables["memories_vec"].dim
            \/ rowid \in DOMAIN db.vec_tables["memories_vec"].rows
         THEN Raise(db, "OperationalError", "None")
         ELSE Ok([db EXCEPT !.vec_tables["memories_vec"].rows =
                                Put(db.vec_tables["memories_vec"].rows, rowid, embedding)],
                 "None")

\* SELECT ... WHERE id LIKE prefix%: the rows that match
ResolveRowids(db, memory_id) ==
    {r \in DOMAIN db.memories : IsIdPrefix(memory_id, db.memories[r].id)}

\* fetchone(): the scan goes through the index of the UNIQUE column id, so the
\* first row is the one with the least id
FirstById(db, hits) ==
    CHOOSE r \in hits :
        \A q \in hits : q = r \/ TextLess(db.memories[r].id, db.memories[q].id)

\* the update counter is left as it is
UpdatedRow_not_counting(old, what, why, impact, tags) ==
    [old EXCEPT !.what = IF what # None THEN what ELSE @,
                !.why = IF why # None THEN why ELSE @,
                !.impact = IF impact # None THEN impact ELSE @,
                !.tags = IF tags # None THEN JsonDumps(tags) ELSE @]

\* the SET clauses of update_memory: a field is replaced when it is not None
UpdatedRow(old, what, why, impact, tags) ==
    [old EXCEPT !.updated_count = @ + 1,
                !.what = IF what # None THEN what ELSE @,
                !.why = IF why # None THEN why ELSE @,
                !.impact = IF impact # None THEN impact ELSE @,
                !.tags = IF tags # None THEN JsonDumps(tags) ELSE @]

\* the appended text takes the place of the body
AppendedDetails_replacing(details, full_id, details_append) ==
    IF ~Truthy(details_append) THEN details
    ELSE IF \E i \in 1..Len(details) : details[i].memory_id = full_id
         THEN [i \in 1..Len(details) |->
                  IF details[i].memory_id = full_id
                  THEN [details[i] EXCEPT !.body = details_append]
                  ELSE details[i]]
         ELSE Append(details, [memory_id |-> full_id, body |-> details_append])

\* the body of memory_details after details_append
AppendedDetails(details, full_id, details_append) ==
    IF ~Truthy(details_append) THEN details
    ELSE IF \E i \in 1..Len(details) : details[i].memory_id = full_id
         THEN [i \in 1..Len(details) |->
                  IF details[i].memory_id = full_id
                  THEN [details[i] EXCEPT !.body = @ \o <<"\n\n">> \o details_append]
                  ELSE details[i]]
         ELSE Append(details, [memory_id |-> full_id, body |-> details_append])

update_memory(db, memory_id, what, why, impact, tags, details_append) ==
    LET write(rowid, new) ==
            Ok([db EXCEPT !.memories = Put(db.memories, rowid, new),
                          !.memories_fts = Put(db.memories_fts, rowid, FtsColumns(new)),
                          !.memory_details =
                              AppendedDetails(db.memory_details, new.id, details_append)],
               TRUE)
        at(rowid) == write(rowid, UpdatedRow(db.memories[rowid], what, why, impact, tags))
        found(hits) == IF hits = {} THEN Ok(db, FALSE) ELSE at(FirstById(db, hits))
    IN found(ResolveRowids(db, memory_id))

\* no statement removes the row's entry from memories_fts or memories_vec
delete_memory(db, memory_id) ==
    LET at(rowid) ==
            Ok([db EXCEPT !.memory_details =
                              SelectSeq(db.memory_details,
                                        LAMBDA d : d.memory_id # db.memories[rowid].id),
                          !.memories = Drop(db.memories, rowid)],
               TRUE)
        found(hits) == IF hits = {} THEN Ok(db, FALSE) ELSE at(FirstById(db, hits))
    IN found(ResolveRowids(db, memory_id))

\* ---------------------------------------------------------------- rationals
RECURSIVE Gcd(_, _)
Gcd(a, b) == IF b = 0 THEN a ELSE Gcd(b, a % b)

Abs(n) == IF n < 0 THEN -n ELSE n

\* n/d with d > 0, in lowest terms
Rat(n, d) ==
    LET reduce(g) == <<n \div g, d \div g>>
    IN reduce(Gcd(Abs(n), d))

RLe(a, b) == a[1] * b[2] <= b[1] * a[2]

RLt(a, b) == a[1] * b[2] < b[1] * a[2]

RAdd(a, b) == Rat(a[1] * b[2] + b[1] * a[2], a[2] * b[2])

RSub(a, b) == Rat(a[1] * b[2] - b[1] * a[2], a[2] * b[2])

RMul(a, b) == Rat(a[1] * b[1], a[2] * b[2])

\* a / b for b > 0
RDiv(a, b) == Rat(a[1] * b[2], a[2] * b[1])

Zero == <<0, 1>>

One == <<1, 1>>

\* max(r["score"] for r in list), list not empty
RECURSIVE RMaxOf(_)
RMaxOf(list) ==
    IF Len(list) = 1 THEN list[1].score
    ELSE LET larger(m) == IF RLe(m, list[1].score) THEN list[1].score ELSE m
         IN larger(RMaxOf(Tail(list)))

\* ------------------------------------------------------------ keyword search
QuoteWords == {"say\"hi"}

\* MATCH raises on an empty query and on a term holding a double quote
FtsSyntaxError(query) ==
    Split(query) = <<>> \/ \E w \in Range(Split(query)) : w \in QuoteWords

\* the porter stemmer's result where it is not the word itself
StemPairs ==
    { <<"redacted", "redact">>, <<"legacy", "legaci">>, <<"users", "user">>,
      <<"say", "sai">> }

Stem(w) == IF \E p \in StemPairs : p[1] = w
           THEN (CHOOSE p \in StemPairs : p[1] = w)[2]
           ELSE w

\* unicode61: the runs of letters and digits of one word, case folded
Unicode61(w) ==
    IF w \in {"", WS, "[", "]"} THEN {}
    ELSE IF w \in {"[REDACTED]", "[redacted]"} THEN {"redacted"}
    ELSE IF w \in QuoteWords THEN {"say", "hi"}
    ELSE {Lower(w)}

\* tokenize='porter unicode61': the tokens of one word
WordTokens(w) == {Stem(t) : t \in Unicode61(w)}

Tokens(text) == UNION {WordTokens(w) : w \in Range(OrEmpty(text))}

RowTokens(cols) ==
    Tokens(cols.title) \cup Tokens(cols.what) \cup Tokens(cols.why)
    \cup Tokens(cols.impact) \cup Tokens(cols.tags) \cup Tokens(<<cols.project>>)

\* rows of the index that the OR of the prefix phrases matches, joined to
\* memories; none when MATCH raises
MatchRows(db, query) ==
    IF FtsSyntaxError(query) THEN {}
    ELSE {r \in DOMAIN db.memories_fts \cap DOMAIN db.memories :
            \E term \in Range(Split(query)) :
                \E t \in WordTokens(term), tok \in RowTokens(db.memories_fts[r]) :
                    IsPrefix(t, tok)}

\* ORDER BY fts.rank: best score first
RECURSIVE OrderByRank(_, _)
OrderByRank(rows, sc) ==
    IF rows = {} THEN <<>>
    ELSE LET rest(best) == <<best>> \o OrderByRank(rows \ {best}, sc)
         IN rest(CHOOSE r \in rows :
                    \A q \in rows : sc[q] < sc[r] \/ (sc[q] = sc[r] /\ r <= q))

\* the columns of a search result the callers read
ResultRow(db, rowid, score) ==
    [rowid |-> rowid, id |-> db.memories[rowid].id,
     title |-> db.memories[rowid].title, tags |-> db.memories[rowid].tags,
     project |-> db.memories[rowid].project, score |-> score]

\* project: the filter, "" when it is None or empty; sc: the score (-rank) FTS5
\* gives each matched row for this query
fts_search(db, query, limit_, project, sc) ==
    IF FtsSyntaxError(query) THEN Raise(db, "OperationalError", <<>>)
    ELSE LET rows(order) == [i \in 1..Len(order) |->
                                ResultRow(db, order[i], <<sc[order[i]], 1>>)]
         IN Ok(db, rows(Take(OrderByRank(
                    {r \in MatchRows(db, query) :
                        project # "" => db.memories[r].project = project}, sc),
                    limit_)))

\* ------------------------------------------------------------- vector search
\* ORDER BY v.distance: nearest first
RECURSIVE OrderByDistance(_, _)
OrderByDistance(rows, dist) ==
    IF rows = {} THEN <<>>
    ELSE LET rest(best) == <<best>> \o OrderByDistance(rows \ {best}, dist)
         IN rest(CHOOSE r \in rows :
                    \A q \in rows : RLt(dist[r], dist[q])
                                    \/ (dist[q] = dist[r] /\ r <= q))

\* the k nearest vectors, joined to memories, score = 1 - distance, then the
\* post-filter by project; a query vector of another length is rejected by vec0
vector_search(db, query_embedding, limit_, project, dist) ==
    IF ~has_vec_table(db) THEN Ok(db, <<>>)
    ELSE IF query_embedding.len # db.vec_tables["memories_vec"].dim
         THEN Raise(db, "OperationalError", <<>>)
         ELSE LET rows(joined) == [i \in 1..Len(joined) |->
                                      ResultRow(db, joined[i], RSub(One, dist[joined[i]]))]
                  filter(results) == SelectSeq(results,
                                        LAMBDA r : project # "" => r.project = project)
              IN Ok(db, filter(rows(SelectSeq(
                        Take(OrderByDistance(DOMAIN db.vec_tables["memories_vec"].rows,
                                             dist), limit_),
                        LAMBDA r : r \in DOMAIN db.memories))))

\* ------------------------------------------------- Embedding Gateway, redaction
\* what one Gateway call does: raise, or return a vector of some length
GatewayOutcomes == {[ok |-> FALSE, len |-> 0]} \cup {[ok |-> TRUE, len |-> d] : d \in Dims}

\* the vector the Gateway returns for a text
Embed(g, text) == [len |-> g.len, of |-> text]

SecretWords == {"SECRET"}

\* redact(text, patterns): every secret replaced by a marker
Redact(text) == [i \in 1..Len(text) |->
                    IF text[i] \in SecretWords THEN "[REDACTED]" ELSE text[i]]

\* ------------------------------------------------- MemoryService (core.py)
\* the property MemoryService.vectors_available: the value it caches and returns
VectorsAvailable(db, va) ==
    IF va = "None" THEN (IF has_vec_table(db) THEN "True" ELSE "False") ELSE va

\* every extra tag is appended, also one that is already there
merge_tags_appending(existing, extra) == existing \o extra

RECURSIVE MergeTagsFrom(_, _, _)
MergeTagsFrom(combined, norm, extra) ==
    IF extra = <<>> THEN combined
    ELSE IF Lower(Head(extra)) \in norm
         THEN MergeTagsFrom(combined, norm, Tail(extra))
         ELSE MergeTagsFrom(Append(combined, Head(extra)),
                            norm \cup {Lower(Head(extra))}, Tail(extra))

merge_tags(existing, extra) ==
    MergeTagsFrom(existing, {Lower(t) : t \in Range(existing)}, extra)

\* [db, va, val]: val is whether vectors are ready
ensure_vectors(db, embedding) ==
    LET result(r) == IF r.exc = ""
                     THEN [db |-> r.db, va |-> "True", val |-> TRUE]
                     ELSE [db |-> db, va |-> "False", val |-> FALSE]
    IN result(ensure_vec_table(db, embedding.len))

\* f"{title} {what} {why or ''} {impact or ''} {' '.join(tags)}"
EmbedText(title, what, why, impact, tags) ==
    title \o what \o OrEmpty(why) \o OrEmpty(impact) \o tags

DedupThreshold == <<7, 10>>

\* the fields of raw after the redaction step
Redacted(raw) ==
    [raw EXCEPT !.what = Redact(raw.what),
                !.why = IF Truthy(raw.why) THEN Redact(raw.why) ELSE @,
                !.impact = IF Truthy(raw.impact) THEN Redact(raw.impact) ELSE @,
                !.details = IF Truthy(raw.details) THEN Redact(raw.details) ELSE @]

\* f"{raw.title} {raw.what}", raw after the redaction step
DedupQuery(raw) == raw.title \o <<WS>> \o raw.what

\* the result of a search inside a try, [] when it raised
OrNoResults(r) == IF r.exc = "" THEN r.val ELSE <<>>

\* the test on the top candidate: <<top>> when the save updates it, else <<>>
DedupDecision(raw, candidates, broad) ==
    LET decide(top, normalized) ==
            IF RLe(DedupThreshold, normalized)
               /\ LowerText(Strip(raw.title)) = LowerText(Strip(top.title))
            THEN <<top>> ELSE <<>>
        normalize(score, max_score) ==
            IF RLt(Zero, max_score) THEN RDiv(score, max_score) ELSE Zero
    IN decide(candidates[1], normalize(candidates[1].score, RMaxOf(broad)))

\* without a candidate in the project, the candidates of all projects are taken
DedupMatch_widening(db, raw, project, sc) ==
    LET choose(candidates, wide) ==
            IF candidates = <<>>
            THEN (IF wide = <<>> THEN <<>> ELSE DedupDecision(raw, wide, wide))
            ELSE DedupDecision(raw, candidates,
                               IF Len(candidates) = 1 /\ wide # <<>>
                               THEN wide ELSE candidates)
    IN choose(OrNoResults(fts_search(db, DedupQuery(raw), DedupLimit, project, sc)),
              OrNoResults(fts_search(db, DedupQuery(raw), DedupLimit, "", sc)))

\* the dedup decision of save: <<>> for the create path, else <<top candidate>>
DedupMatch(db, raw, project, sc) ==
    LET choose(candidates, wide) ==
            IF candidates = <<>> THEN <<>>
            ELSE DedupDecision(raw, candidates,
                               IF Len(candidates) = 1 /\ wide # <<>>
                               THEN wide ELSE candidates)
    IN choose(OrNoResults(fts_search(db, DedupQuery(raw), DedupLimit, project, sc)),
              OrNoResults(fts_search(db, DedupQuery(raw), DedupLimit, "", sc)))

\* the Gateway's exception is not caught: the save raises it
EmbedAndStore_raising(db, va, rowids, g, embed_text, val) ==
    IF ~g.ok THEN [db |-> db, va |-> va, exc |-> "GatewayError", val |-> val]
    ELSE LET store(ens) ==
                 [db |-> IF ens.val /\ rowids # {}
                         THEN insert_vector(ens.db, Min(rowids), Embed(g, embed_text)).db
                         ELSE ens.db,
                  va |-> ens.va, exc |-> "", val |-> val]
         IN store(ensure_vectors(db, Embed(g, embed_text)))

\* the two try blocks of save that embed the text and store the vector of the
\* rows in rowids; every exception is swallowed
EmbedAndStore(db, va, rowids, g, embed_text, val) ==
    IF ~g.ok THEN [db |-> db, va |-> va, exc |-> "", val |-> val]
    ELSE LET store(ens) ==
                 [db |-> IF ens.val /\ rowids # {}
                         THEN insert_vector(ens.db, Min(rowids), Embed(g, embed_text)).db
                         ELSE ens.db,
                  va |-> ens.va, exc |-> "", val |-> val]
         IN store(ensure_vectors(db, Embed(g, embed_text)))

\* details_append of the update path
DetailsAppend(raw) ==
    IF Truthy(raw.details) THEN <<"--- updated today ---\n">> \o raw.details ELSE None

\* the update path of save, for the matched candidate top
SaveUpdate(db, va, raw, top, g) ==
    LET embed(upd, merged_tags) ==
            EmbedAndStore(upd.db, va,
                          {r \in DOMAIN upd.db.memories : upd.db.memories[r].id = top.id},
                          g,
                          EmbedText(top.title, raw.what, raw.why, raw.impact, merged_tags),
                          [id |-> top.id, action |-> "updated"])
        update(merged_tags) ==
            embed(update_memory(db, top.id, raw.what, raw.why, raw.impact,
                                merged_tags, DetailsAppend(raw)),
                  merged_tags)
    IN update(merge_tags(JsonLoads(top.tags), raw.tags))

\* the create path of save
SaveCreate(db, va, raw, project, g) ==
    LET embed(ins, mem) ==
            EmbedAndStore(ins.db, va, {ins.val}, g,
                          EmbedText(mem.title, mem.what, mem.why, mem.impact, mem.tags),
                          [id |-> mem.id, action |-> "created"])
        insert(mem) == embed(insert_memory(db, mem, raw.details), mem)
    IN insert([id |-> IdOf(db.next_rowid), title |-> raw.title, what |-> raw.what,
               why |-> raw.why, impact |-> raw.impact, tags |-> raw.tags,
               project |-> project])

\* project: the project after "project or basename(cwd)"; g: the Gateway's
\* answer; sc: the scores FTS5 gives the rows for the dedup probe
save(db, va, raw0, project, g, sc) ==
    LET path(raw, match) ==
            IF match # <<>>
            THEN SaveUpdate(db, va, raw, match[1], g)
            ELSE SaveCreate(db, va, raw, project, g)
    IN path(Redacted(raw0), DedupMatch(db, Redacted(raw0), project, sc))

\* ------------------------------------------------------ reindex (core.py)
\* the variable reindexing when no reindex call is in progress
Idle == [pc |-> "idle"]

\* list_all_for_reindex: the rows of memories, ORDER BY rowid
RECURSIVE ListRows(_, _)
ListRows(db, rows) ==
    IF rows = {} THEN <<>>
    ELSE <<[rowid |-> Min(rows), title |-> db.memories[Min(rows)].title,
            what |-> db.memories[Min(rows)].what, why |-> db.memories[Min(rows)].why,
            impact |-> db.memories[Min(rows)].impact,
            tags |-> db.memories[Min(rows)].tags]>>
         \o ListRows(db, rows \ {Min(rows)})

list_all_for_reindex(db) == ListRows(db, DOMAIN db.memories)

\* the index is not dropped before the memories are embedded again
reindex_probe_keeping_index(db, probe) ==
    IF ~probe.ok THEN Raise(db, "GatewayError", "None")
    ELSE Ok(db, probe.len)

\* reindex up to its first commit: the dimension probe, then drop_vec_table;
\* probe: the Gateway's answer to the probe, val: dim
reindex_probe(db, probe) ==
    IF ~probe.ok THEN Raise(db, "GatewayError", "None")
    ELSE Ok(drop_vec_table(db), probe.len)

\* a memory whose embedding fails is left without a vector and the loop goes on
reindex_row_skipping(db, mem, g) ==
    IF ~g.ok THEN Ok(db, "None")
    ELSE insert_vector(db, mem.rowid,
                       Embed(g, EmbedText(mem.title, mem.what, mem.why, mem.impact,
                                          JsonLoads(mem.tags))))

\* the body of reindex's loop for the listed row mem, up to the callback;
\* g: the Gateway's answer for the row's text
reindex_row(db, mem, g) ==
    IF ~g.ok THEN Raise(db, "GatewayError", "None")
    ELSE insert_vector(db, mem.rowid,
                       Embed(g, EmbedText(mem.title, mem.what, mem.why, mem.impact,
                                          JsonLoads(mem.tags))))
\* ------------------------------------------- Hybrid Search Engine (search.py)
FtsWeight == <<3, 10>>

VecWeight == <<7, 10>>

\* Python's "x or 1.0"
OrOne(x) == IF x = Zero THEN One ELSE x

\* the scores are left as the Store returned them
NotNormalized(list) == list

\* r["score"] = r["score"] / max if max > 0 else 0.0, max = max(scores) or 1.0
Normalize(list) ==
    IF list = <<>> THEN list
    ELSE LET scale(max) ==
                 [i \in 1..Len(list) |->
                     [list[i] EXCEPT !.score = IF RLt(Zero, max)
                                               THEN RDiv(@, max) ELSE Zero]]
         IN scale(OrOne(RMaxOf(list)))

\* the place of id in the list, 0 when it is not there
IndexOf(list, id) ==
    IF \E i \in 1..Len(list) : list[i].id = id
    THEN CHOOSE i \in 1..Len(list) : list[i].id = id
    ELSE 0

\* scores[rid] = dict(r); scores[rid]["score"] = fts_weight * r["score"]
RECURSIVE CombineFts(_, _, _)
CombineFts(scores, list, weight) ==
    IF list = <<>> THEN scores
    ELSE LET put(i, e) == IF i = 0 THEN Append(scores, e)
                          ELSE [scores EXCEPT ![i] = e]
         IN CombineFts(put(IndexOf(scores, Head(list).id),
                           [Head(list) EXCEPT !.score = RMul(weight, @)]),
                       Tail(list), weight)

\* scores[rid]["score"] += vec_weight * r["score"], or a new entry
RECURSIVE CombineVec(_, _, _)
CombineVec(scores, list, weight) ==
    IF list = <<>> THEN scores
    ELSE LET put(i, term) ==
                 IF i = 0
                 THEN Append(scores, [Head(list) EXCEPT !.score = term])
                 ELSE [scores EXCEPT ![i].score = RAdd(@, term)]
         IN CombineVec(put(IndexOf(scores, Head(list).id),
                           RMul(weight, Head(list).score)),
                       Tail(list), weight)

\* sorted(..., key=score, reverse=True): stable, best first
RECURSIVE SortedByScore(_)
SortedByScore(list) ==
    IF list = <<>> THEN <<>>
    ELSE LET rest(best) ==
                 <<list[best]>>
                 \o SortedByScore(SubSeq(list, 1, best - 1)
                                  \o SubSeq(list, best + 1, Len(list)))
         IN rest(CHOOSE i \in 1..Len(list) :
                    \A j \in 1..Len(list) :
                        RLt(list[j].score, list[i].score)
                        \/ (list[j].score = list[i].score /\ i <= j))

merge_results(fts_results, vec_results, fts_weight, vec_weight, limit_) ==
    Take(SortedByScore(CombineVec(CombineFts(<<>>, Normalize(fts_results), fts_weight),
                                  Normalize(vec_results), vec_weight)),
         limit_)

\* what a search returns or raises, and the calls it made on the Gateway and on
\* the vector search, in order
Found(val, calls) == [exc |-> "", val |-> val, calls |-> calls]

Failed(exc, calls) == [exc |-> exc, val |-> <<>>, calls |-> calls]

EmbedRaised == <<"embed raised">>

VectorSearchRaised == <<"embed", "vector_search raised">>

VectorSearched == <<"embed", "vector_search">>

\* the vector embedding_provider.search(query) returns
QueryVector(g, query) == [len |-> g.len, of |-> query]

\* the Gateway is asked before the keyword results are counted
tiered_search_embedding_first(db, embedding_provider, query, limit_, min_fts_results, project, sc, dist) ==
    LET fallback(fts_results) ==
            IF embedding_provider = <<>> THEN Found(Take(fts_results, limit_), <<>>)
            ELSE IF ~embedding_provider[1].ok THEN Found(Take(fts_results, limit_), EmbedRaised)
            ELSE LET merged(vec) ==
                         IF vec.exc # "" THEN Found(Take(fts_results, limit_), VectorSearchRaised)
                         ELSE Found(merge_results(fts_results, vec.val, FtsWeight,
                                                  VecWeight, limit_), VectorSearched)
                 IN merged(vector_search(db, QueryVector(embedding_provider[1], query), limit_ * 2,
                                         project, dist))
        searched(fts) == IF fts.exc # "" THEN Failed(fts.exc, <<>>)
                         ELSE fallback(Normalize(fts.val))
    IN searched(fts_search(db, query, limit_ * 2, project, sc))

\* the fallback runs outside a try
tiered_search_not_catching(db, embedding_provider, query, limit_, min_fts_results, project, sc, dist) ==
    LET fallback(fts_results) ==
            IF Len(fts_results) >= min_fts_results
            THEN Found(Take(fts_results, limit_), <<>>)
            ELSE IF embedding_provider = <<>>
            THEN Found(Take(fts_results, limit_), <<>>)
            ELSE IF ~embedding_provider[1].ok THEN Failed("GatewayError", EmbedRaised)
            ELSE LET merged(vec) ==
                         IF vec.exc # "" THEN Failed(vec.exc, VectorSearchRaised)
                         ELSE Found(merge_results(fts_results, vec.val, FtsWeight,
                                                  VecWeight, limit_), VectorSearched)
                 IN merged(vector_search(db, QueryVector(embedding_provider[1], query), limit_ * 2,
                                         project, dist))
        searched(fts) == IF fts.exc # "" THEN Failed(fts.exc, <<>>)
                         ELSE fallback(Normalize(fts.val))
    IN searched(fts_search(db, query, limit_ * 2, project, sc))

\* embedding_provider: <<>> for None, else <<g>>, g what its search(query) does
tiered_search(db, embedding_provider, query, limit_, min_fts_results, project, sc, dist) ==
    LET fallback(fts_results) ==
            IF Len(fts_results) >= min_fts_results
            THEN Found(Take(fts_results, limit_), <<>>)
            ELSE IF embedding_provider = <<>>
            THEN Found(Take(fts_results, limit_), <<>>)
            ELSE IF ~embedding_provider[1].ok THEN Found(Take(fts_results, limit_), EmbedRaised)
            ELSE LET merged(vec) ==
                         IF vec.exc # "" THEN Found(Take(fts_results, limit_), VectorSearchRaised)
                         ELSE Found(merge_results(fts_results, vec.val, FtsWeight,
                                                  VecWeight, limit_), VectorSearched)
                 IN merged(vector_search(db, QueryVector(embedding_provider[1], query), limit_ * 2,
                                         project, dist))
        searched(fts) == IF fts.exc # "" THEN Failed(fts.exc, <<>>)
                         ELSE fallback(Normalize(fts.val))
    IN searched(fts_search(db, query, limit_ * 2, project, sc))

hybrid_search(db, embedding_provider, query, limit_, project, sc, dist) ==
    LET merge(fts_results) ==
            IF embedding_provider = <<>>
            THEN Found(Take(Normalize(fts_results), limit_), <<>>)
            ELSE IF ~embedding_provider[1].ok THEN Failed("GatewayError", EmbedRaised)
            ELSE LET merged(vec) ==
                         IF vec.exc # "" THEN Failed(vec.exc, VectorSearchRaised)
                         ELSE Found(merge_results(fts_results, vec.val, FtsWeight,
                                                  VecWeight, limit_), VectorSearched)
                 IN merged(vector_search(db, QueryVector(embedding_provider[1], query), limit_ * 2,
                                         project, dist))
        searched(fts) == IF fts.exc # "" THEN Failed(fts.exc, <<>>)
                         ELSE merge(fts.val)
    IN searched(fts_search(db, query, limit_ * 2, project, sc))

\* MemoryService.search, g: what the configured provider's search(query) does;
\* [va, exc, val, calls]
search(db, va, query, limit_, project, use_vectors, g, sc, dist) ==
    LET with(va1, r, first) ==
            [va |-> va1, exc |-> r.exc, val |-> r.val, calls |-> first \o r.calls]
        keyword(va1, first) ==
            with(va1, tiered_search(db, <<>>, query, limit_, MinFtsResults,
                                    project, sc, dist), first)
        caught(va1, t) ==
            IF t.exc = "" THEN with(va1, t, <<>>)
            ELSE keyword(IF t.exc = "DimensionMismatch" THEN "False" ELSE va1, t.calls)
        tiered(va1) ==
            IF va1 = "True"
            THEN caught(va1, tiered_search(db, <<g>>, query, limit_, MinFtsResults,
                                           project, sc, dist))
            ELSE keyword(va1, <<>>)
    IN IF ~use_vectors
       THEN with(va, hybrid_search(db, <<>>, query, limit_, project, sc, dist), <<>>)
       ELSE tiered(VectorsAvailable(db, va))

\* ----------------------------------------------------------------- inputs
Projects == {"a", "b", ""}

RawInputs ==
    { [title |-> <<"Fix", "auth">>, what |-> <<"session">>, why |-> None,
       impact |-> None, tags |-> <<"auth">>, details |-> None],
      [title |-> <<WS, "fix", "AUTH", WS>>, what |-> <<"refresh", "session">>,
       why |-> <<"sso">>, impact |-> None, tags |-> <<"Auth", "sso">>,
       details |-> <<"log">>],
      [title |-> <<"Fix", "SECRET">>, what |-> <<"SECRET", "users">>, why |-> None,
       impact |-> <<"plan">>, tags |-> <<>>, details |-> None],
      [title |-> <<"say\"hi">>, what |-> <<"session">>, why |-> None,
       impact |-> None, tags |-> <<"auth", "Auth">>, details |-> None] }

\* the scores FTS5 may give a row matched by the dedup probe
ScoreValues == {1, 7, 10}

\* the memories and the project of the runs that exercise the vector index: one
\* that later saves update (it comes with a Detail), one whose save always
\* creates a record
VecRawInputs ==
    {raw \in RawInputs : raw.title \in {<<WS, "fix", "AUTH", WS>>, <<"say\"hi">>}}

VecProjects == {"a"}

\* ---------------------------------------------------------------- actions
StoreIs(db) ==
    /\ memories = db.memories
    /\ memory_details = db.memory_details
    /\ memories_fts = db.memories_fts
    /\ meta = db.meta
    /\ vec_tables = db.vec_tables
    /\ next_rowid = db.next_rowid

\* no search is in progress
NoSearch ==
    /\ rank = EmptyFn
    /\ distance = EmptyFn
    /\ limit = DefaultLimit

\* the state after MemoryService.__init__ on a new database file
Opened ==
    /\ StoreIs(EmptyDB)
    /\ vectors_available = "None"
    /\ NoSearch
    /\ reindexing = Idle
    /\ ret = [op |-> "init", exc |-> "", val |-> "None"]

\* the Gateway is down, or up with one model, for the whole run
Init ==
    /\ uuids \in UuidRuns
    /\ Opened
    /\ gateway \in {{[ok |-> FALSE, len |-> 0]}, {[ok |-> TRUE, len |-> 2]}}

Commit(db) ==
    /\ memories' = db.memories
    /\ memory_details' = db.memory_details
    /\ memories_fts' = db.memories_fts
    /\ meta' = db.meta
    /\ vec_tables' = db.vec_tables
    /\ next_rowid' = db.next_rowid

\* a reindex call is in progress
Reindexing == reindexing.pc # "idle"

\* reindex is inside progress_callback(i + 1, total)
InCallback == reindexing.pc = "loop" /\ reindexing.i > 0

\* an operation the callback calls is noted in the frame of the reindex
Reentered ==
    reindexing' = IF Reindexing THEN [reindexing EXCEPT !.reentered = TRUE]
                  ELSE reindexing

SaveOf(raws, projects) ==
    \E raw \in raws, project \in projects, g \in gateway :
        \E sc \in [MatchRows(DB, DedupQuery(Redacted(raw))) -> ScoreValues] :
            \E r \in {save(DB, vectors_available, raw, project, g, sc)} :
                /\ ~Reindexing \/ InCallback
                /\ Reentered
                /\ r.db.next_rowid <= MaxMem + 1
                /\ \A k \in DOMAIN r.db.memories :
                        r.db.memories[k].updated_count <= MaxUpdates
                /\ Commit(r.db)
                /\ vectors_available' = r.va
                /\ ret' = [op |-> "save", raw |-> raw, g |-> g,
                           rowid |-> CHOOSE k \in DOMAIN r.db.memories :
                                        r.db.memories[k].id = r.val.id,
                           exc |-> r.exc, val |-> r.val]
                /\ UNCHANGED <<gateway, rank, distance, limit, uuids>>

Save == SaveOf(RawInputs, Projects)

\* the identifiers delete is called with: the empty string, whole identifiers,
\* their first characters, and the first character of the first in upper case
Delete ==
    \E memory_id \in {<<>>, <<IdOf(1)[1] - 32>>} \cup {IdOf(i) : i \in 1..MaxMem}
                    \cup {<<IdOf(i)[1]>> : i \in 1..MaxMem} :
        \E r \in {delete_memory(DB, memory_id)} :
            /\ ~Reindexing \/ InCallback
            /\ Reentered
            /\ Commit(r.db)
            /\ ret' = [op |-> "delete", exc |-> r.exc, val |-> r.val]
            /\ UNCHANGED <<vectors_available, gateway, rank, distance, limit,
                           uuids>>

Next ==
    \/ Save
    \/ Delete

Spec == Init /\ [][Next]_vars

\* ------------------------------------------- the vector index's life cycle
\* the Gateway may fail or answer with either model's length at each call
VecInit ==
    /\ uuids \in UuidRuns
    /\ Opened
    /\ gateway = GatewayOutcomes

VecSave == SaveOf(VecRawInputs, VecProjects)

\* the variables no step of reindex changes
ReindexFrame == UNCHANGED <<gateway, rank, distance, limit, uuids>>

\* reindex returns val or raises exc; frame: its local variables at that moment
ReindexEnds(probed, exc, val) ==
    /\ ret' = [op |-> "reindex", probed |-> probed, exc |-> exc, val |-> val,
               frame |-> reindexing]
    /\ reindexing' = Idle

\* reindex has not returned
ReindexGoesOn(frame) ==
    /\ ret' = [op |-> "reindex", probed |-> TRUE, exc |-> "", val |-> "running",
               frame |-> frame]
    /\ reindexing' = frame

\* the probe, and drop_vec_table when it succeeded
ReindexProbe ==
    \E probe \in gateway :
        \E r \in {reindex_probe(DB, probe)} :
            /\ ~Reindexing
            /\ Commit(r.db)
            /\ IF r.exc # "" THEN ReindexEnds(FALSE, r.exc, r.val)
               ELSE ReindexGoesOn([pc |-> "dropped", dim |-> r.val, memories |-> <<>>,
                                   i |-> 0, reentered |-> FALSE])
            /\ UNCHANGED vectors_available
            /\ ReindexFrame

ReindexSetDim ==
    /\ reindexing.pc = "dropped"
    /\ Commit(set_embedding_dim(DB, reindexing.dim))
    /\ ReindexGoesOn([reindexing EXCEPT !.pc = "recorded"])
    /\ UNCHANGED vectors_available
    /\ ReindexFrame

\* _create_vec_table, then the rows are listed
ReindexCreate ==
    /\ reindexing.pc = "recorded"
    /\ \E db \in {create_vec_table(DB, reindexing.dim)} :
          /\ Commit(db)
          /\ ReindexGoesOn([reindexing EXCEPT !.pc = "loop",
                                              !.memories = list_all_for_reindex(db)])
    /\ UNCHANGED vectors_available
    /\ ReindexFrame

\* one turn of the loop: the row's text is embedded and its vector inserted,
\* then progress_callback is called
ReindexRow ==
    /\ reindexing.pc = "loop"
    /\ reindexing.i < Len(reindexing.memories)
    /\ \E g \in gateway :
          \E r \in {reindex_row(DB, reindexing.memories[reindexing.i + 1], g)} :
              /\ Commit(r.db)
              /\ IF r.exc # "" THEN ReindexEnds(TRUE, r.exc, r.val)
                 ELSE ReindexGoesOn([reindexing EXCEPT !.i = @ + 1])
    /\ UNCHANGED vectors_available
    /\ ReindexFrame

\* the loop is over: _vectors_available = True and the result is returned
ReindexReturn ==
    /\ reindexing.pc = "loop"
    /\ reindexing.i = Len(reindexing.memories)
    /\ ReindexEnds(TRUE, "", [count |-> Len(reindexing.memories),
                               dim |-> reindexing.dim])
    /\ vectors_available' = "True"
    /\ UNCHANGED <<memories, memory_details, memories_fts, meta, vec_tables,
                   next_rowid>>
    /\ ReindexFrame

EnsureVecTable ==
    \E dim \in Dims :
        \E r \in {ensure_vec_table(DB, dim)} :
            /\ ~Reindexing
            /\ Commit(r.db)
            /\ ret' = [op |-> "ensure_vec_table", args |-> dim, exc |-> r.exc,
                       val |-> r.val]
            /\ UNCHANGED <<vectors_available, gateway, rank, distance, limit, uuids,
                           reindexing>>

InsertVector ==
    \E rowid \in 1..(next_rowid - 1), len \in Dims :
        \E r \in {insert_vector(DB, rowid, [len |-> len, of |-> <<>>])} :
            /\ ~Reindexing
            /\ Commit(r.db)
            /\ ret' = [op |-> "insert_vector", args |-> [rowid |-> rowid, len |-> len],
                       exc |-> r.exc, val |-> r.val]
            /\ UNCHANGED <<vectors_available, gateway, rank, distance, limit, uuids,
                           reindexing>>

DropVecTable ==
    /\ ~Reindexing
    /\ Commit(drop_vec_table(DB))
    /\ ret' = [op |-> "drop_vec_table", exc |-> "", val |-> "None"]
    /\ UNCHANGED <<vectors_available, gateway, rank, distance, limit, uuids,
                   reindexing>>

SetEmbeddingDim ==
    \E dim \in Dims :
        /\ ~Reindexing
        /\ Commit(set_embedding_dim(DB, dim))
        /\ ret' = [op |-> "set_embedding_dim", exc |-> "", val |-> "None"]
        /\ UNCHANGED <<vectors_available, gateway, rank, distance, limit, uuids,
                       reindexing>>

\* the process ends and a new MemoryService opens the same database file
Open ==
    /\ Commit(create_schema(DB))
    /\ vectors_available' = "None"
    /\ reindexing' = Idle
    /\ ret' = [op |-> "open", exc |-> "", val |-> "None"]
    /\ UNCHANGED <<gateway, rank, distance, limit, uuids>>

VecNext ==
    \/ VecSave
    \/ Delete
    \/ ReindexProbe
    \/ ReindexSetDim
    \/ ReindexCreate
    \/ ReindexRow
    \/ ReindexReturn
    \/ EnsureVecTable
    \/ InsertVector
    \/ DropVecTable
    \/ SetEmbeddingDim
    \/ Open

VecSpec == VecInit /\ [][VecNext]_vars

\* ------------------------------------------------ searching a populated store
\* the query of the searches, and the memories it matches and misses
Query == <<"fix">>

SearchMem(i, matching) ==
    [id |-> IdOf(i), title |-> IF i <= matching THEN <<"Fix", "auth">> ELSE <<"Db">>,
     what |-> <<"note">>, why |-> None, impact |-> None, tags |-> <<>>,
     project |-> "a"]

\* SearchRows memories, the first `matching` of them matched by Query
RECURSIVE Populated(_, _, _)
Populated(db, i, matching) ==
    IF i > SearchRows THEN db
    ELSE Populated(insert_memory(db, SearchMem(i, matching), None).db, i + 1, matching)

\* vectors of length 2 for the rows
RECURSIVE WithVectors(_, _)
WithVectors(db, rows) ==
    IF rows = {} THEN db
    ELSE WithVectors(insert_vector(db, Min(rows), [len |-> 2, of |-> <<>>]).db,
                     rows \ {Min(rows)})

\* the stores searched: without a vector index, or with one that holds vectors
\* of the first and the last memory, of both or of neither
SearchStores ==
    {Populated(EmptyDB, 1, matching) : matching \in 0..SearchRows}
    \cup {WithVectors(ensure_vec_table(Populated(EmptyDB, 1, matching), 2).db, rows) :
            matching \in 0..SearchRows, rows \in SUBSET {1, SearchRows}}

SearchScores == {1, 2}

Distances == {<<0, 1>>, <<1, 2>>, <<1, 1>>, <<2, 1>>}

Limits == {1, 2}

\* the rows of the vector index
VecRowids(db) ==
    IF has_vec_table(db) THEN DOMAIN db.vec_tables["memories_vec"].rows ELSE {}

SearchInit ==
    /\ uuids = [i \in 1..IdCount |-> IdText(i)]
    /\ reindexing = Idle
    /\ \E db \in SearchStores : StoreIs(db)
    /\ vectors_available = "None"
    /\ gateway = GatewayOutcomes
    /\ rank \in [MatchRows(DB, Query) -> SearchScores]
    /\ distance \in [VecRowids(DB) -> Distances]
    /\ limit \in Limits
    /\ ret = [op |-> "init", exc |-> "", val |-> "None"]

Returned(op, args, r) ==
    ret' = [op |-> op, args |-> args, exc |-> r.exc, val |-> r.val, calls |-> r.calls]

\* the argument embedding_provider: None, or a provider that does g when asked
Providers == {<<>>} \cup {<<g>> : g \in gateway}

TieredSearch ==
    \E embedding_provider \in Providers :
        /\ Returned("tiered_search", embedding_provider # <<>>,
                    tiered_search(DB, embedding_provider, Query, limit, MinFtsResults,
                                  "", rank, distance))
        /\ UNCHANGED <<memories, memory_details, memories_fts, meta, vec_tables,
                       next_rowid, vectors_available, gateway, rank, distance, limit, uuids, reindexing>>

HybridSearch ==
    \E embedding_provider \in Providers :
        /\ Returned("hybrid_search", embedding_provider # <<>>,
                    hybrid_search(DB, embedding_provider, Query, limit, "", rank,
                                  distance))
        /\ UNCHANGED <<memories, memory_details, memories_fts, meta, vec_tables,
                       next_rowid, vectors_available, gateway, rank, distance, limit, uuids, reindexing>>

Search ==
    \E use_vectors \in BOOLEAN, g \in gateway :
        \E r \in {search(DB, vectors_available, Query, limit, "", use_vectors, g, rank,
                         distance)} :
            /\ Returned("search", use_vectors, r)
            /\ vectors_available' = r.va
            /\ UNCHANGED <<memories, memory_details, memories_fts, meta, vec_tables,
                           next_rowid, gateway, rank, distance, limit, uuids, reindexing>>

\* merge_results on the keyword results and the vector results of the query
MergeResults ==
    /\ has_vec_table(DB)
    /\ Returned("merge_results", TRUE,
                Found(merge_results(
                          fts_search(DB, Query, limit * 2, "", rank).val,
                          vector_search(DB, [len |-> vec_tables["memories_vec"].dim],
                                        limit * 2, "", distance).val,
                          FtsWeight, VecWeight, limit), <<>>))
    /\ UNCHANGED <<memories, memory_details, memories_fts, meta, vec_tables,
                   next_rowid, vectors_available, gateway, rank, distance, limit, uuids, reindexing>>

SearchNext ==
    \/ TieredSearch
    \/ HybridSearch
    \/ Search
    \/ MergeResults

SearchSpec == SearchInit /\ [][SearchNext]_vars

\* ===================================================================== claims
\* ------------------------------------------------- the vector index (VecSpec)
\* the lengths of the vectors the index holds
VectorLengths == {vec_tables["memories_vec"].rows[r].len : r \in VecRowids(DB)}

\* C1: in every reachable state every vector of the index has the
\* recorded embedding dimension as its length, and the index holds vectors of
\* one length only.
C1_SingleActiveDimension ==
    /\ \A len \in VectorLengths : get_embedding_dim(DB) = <<len>>
    /\ Cardinality(VectorLengths) <= 1

\* C10: when a dimension S is recorded, ensure_vec_table(R) with R # S raises
\* DimensionMismatch carrying (stored S, requested R) and changes neither the
\* recorded dimension nor the vector index nor any stored vector.
C10_EnsureMismatchRejected ==
    [][(/\ ret'.op = "ensure_vec_table"
        /\ get_embedding_dim(DB) # <<>>
        /\ ret'.args # get_embedding_dim(DB)[1])
       => (/\ ret'.exc = "DimensionMismatch"
           /\ ret'.val = [stored_dim |-> get_embedding_dim(DB)[1], new_dim |-> ret'.args]
           /\ UNCHANGED <<meta, vec_tables, memories, memory_details, memories_fts>>)]_vars

\* ensure_vec_table raised the mismatch on an index that holds a vector
C10_Witness ==
    /\ ret.op = "ensure_vec_table"
    /\ ret.exc = "DimensionMismatch"
    /\ ret.val.stored_dim # ret.val.new_dim
    /\ VecRowids(DB) # {}

\* ----------------------------------------------------------- dedup (Spec)
TitleEq(a, b) == LowerText(Strip(a)) = LowerText(Strip(b))

Overlaps(a, b) == Tokens(a) \cap Tokens(b) # {}

RowOfId(id) == CHOOSE r \in DOMAIN memories : memories[r].id = id

\* the last operation was a save that created a record
JustCreated == ret.op = "save" /\ ret.val.action = "created"

\* old followed by the tags of extra that are, case-insensitively, neither in
\* old nor earlier in extra
TagsFollowedBy(old, extra) ==
    LET kept == {i \in 1..Len(extra) :
                    /\ \A t \in Range(old) : Lower(t) # Lower(extra[i])
                    /\ \A j \in 1..(i - 1) : Lower(extra[j]) # Lower(extra[i])}
        nth(n) == CHOOSE i \in kept : Cardinality({j \in kept : j < i}) = n - 1
    IN old \o [n \in 1..Cardinality(kept) |-> extra[nth(n)]]

\* the rows the dedup probe of B matches
ProbeRows(B) == MatchRows(DB, DedupQuery(Redacted(B)))

\* the probe does not raise, and row a is ranked above the other candidates
\* and, when it is the only candidate, has at least 0.7 of the best score over
\* all projects.  The candidates are the rows of project P the probe matches
\* or, P being the empty project name, every row it matches: fts_search
\* filters by project only "if project"
RankedFirst(a, P, B, sc) ==
    LET cands == {q \in ProbeRows(B) : P # "" => memories[q].project = P}
    IN /\ ~FtsSyntaxError(DedupQuery(Redacted(B)))
       /\ a \in cands
       /\ \A q \in cands \ {a} : sc[q] < sc[a]
       /\ cands = {a} => \A q \in ProbeRows(B) : 7 * sc[q] <= 10 * sc[a]

\* what C2 says of the save of B into P after the save that created row a;
\* B's what is the text the save stores, its secrets redacted
UpdatesCreated(a, P, B, r) ==
    /\ r.exc = ""
    /\ r.val = [id |-> memories[a].id, action |-> "updated"]
    /\ DOMAIN r.db.memories = DOMAIN memories
    /\ r.db.memories[a].updated_count = 1
    /\ r.db.memories[a].what = Redact(B.what)
    /\ r.db.memories[a].tags = JsonDumps(TagsFollowedBy(JsonLoads(memories[a].tags), B.tags))

\* C2 as stated: for any prior store content, after save(A, P) created a
\* record, save(B, P) with B's title equal to A's up to case and surrounding
\* whitespace and B's what overlapping A's returns "updated" with A's id, leaves
\* the set of records unchanged, and the record has updated_count 1, B's
\* what and A's tags followed by B's new tags.
C2_DedupSameProject ==
    JustCreated =>
        \A B \in RawInputs, g \in gateway :
            (/\ TitleEq(B.title, memories[RowOfId(ret.val.id)].title)
             /\ Overlaps(B.what, memories[RowOfId(ret.val.id)].what))
            => \A sc \in [ProbeRows(B) -> ScoreValues] :
                 LET a == RowOfId(ret.val.id)
                     r == save(DB, vectors_available, B, memories[a].project, g, sc)
                 IN UpdatesCreated(a, memories[a].project, B, r)

\* C2 amended: the same, when the probe succeeds and ranks A above the other
\* candidates and, A being the only candidate, A's score is at least 0.7 of
\* the best score of the probe over all projects.  The candidates are the
\* records of P the probe matches, or every record it matches when P is the
\* empty project name.
C2_DedupSameProjectWhenRankedFirst ==
    JustCreated =>
        \A B \in RawInputs, g \in gateway :
            (/\ TitleEq(B.title, memories[RowOfId(ret.val.id)].title)
             /\ Overlaps(B.what, memories[RowOfId(ret.val.id)].what))
            => \A sc \in [ProbeRows(B) -> ScoreValues] :
                 LET a == RowOfId(ret.val.id)
                     r == save(DB, vectors_available, B, memories[a].project, g, sc)
                 IN RankedFirst(a, memories[a].project, B, sc)
                    => UpdatesCreated(a, memories[a].project, B, r)

\* a save updated the record of an earlier save while another record is
\* stored: counter 1, and the tags of both saves merged
C2_Witness ==
    /\ ret.op = "save"
    /\ ret.val.action = "updated"
    /\ Cardinality(DOMAIN memories) = 2
    /\ memories[RowOfId(ret.val.id)].updated_count = 1
    /\ memories[RowOfId(ret.val.id)].tags = JsonDumps(<<"auth", "sso">>)
    /\ memories[RowOfId(ret.val.id)].what = <<"refresh", "session">>

\* C3: a save(raw, P), in any store state, leaves every record of a project
\* other than P as it is.
C3_DedupNeverCrossesProjects ==
    \A raw \in RawInputs, P \in Projects, g \in gateway :
        \A sc \in [ProbeRows(raw) -> ScoreValues] :
            \A k \in DOMAIN memories :
                memories[k].project # P
                => save(DB, vectors_available, raw, P, g, sc).db.memories[k] = memories[k]

\* -------------------------------------------------------- search (SearchSpec)
\* what the Store's keyword search returns for the query
KeywordResults == fts_search(DB, Query, limit * 2, "", rank).val

\* what the Store's vector search returns for a query vector of the index's width
VectorResults ==
    vector_search(DB, [len |-> vec_tables["memories_vec"].dim], limit * 2, "",
                  distance).val

\* the first `limit` keyword candidates in rank order, each score divided by
\* the best one
KeywordOnly ==
    [i \in 1..(IF Len(KeywordResults) < limit THEN Len(KeywordResults) ELSE limit) |->
        [KeywordResults[i] EXCEPT !.score = RDiv(@, KeywordResults[1].score)]]

\* C4: when the keyword search inside tiered_search returns at least
\* min_fts_results (3) candidates, the call invokes neither the Gateway nor
\* the vector search and returns the first `limit` keyword candidates in rank
\* order with normalized scores.
C4_DenseSkipsGateway ==
    (ret.op = "tiered_search" /\ Len(KeywordResults) >= MinFtsResults)
    => /\ ret.exc = ""
       /\ ret.calls = <<>>
       /\ ret.val = KeywordOnly

\* tiered_search with a provider returned the first `limit` of three keyword
\* candidates
C4_Witness ==
    /\ ret.op = "tiered_search"
    /\ ret.args
    /\ Len(KeywordResults) >= MinFtsResults
    /\ Len(ret.val) = limit
    /\ limit < Len(KeywordResults)

\* C5: when the keyword results are sparse and a provider is given, a failure of
\* the Gateway's query embedding or of the vector search makes tiered_search
\* return the normalized keyword candidates cut to `limit`, and nothing is
\* raised.
C5_TieredDegrades ==
    (ret.op = "tiered_search" /\ ret.args /\ Len(KeywordResults) < MinFtsResults)
    => /\ ret.exc = ""
       /\ ret.calls # <<>>
       /\ ret.calls \in {EmbedRaised, VectorSearchRaised} => ret.val = KeywordOnly

\* the Gateway raised inside tiered_search, which returned its keyword candidate
C5_Witness ==
    /\ ret.op = "tiered_search"
    /\ ret.calls = EmbedRaised
    /\ ret.exc = ""
    /\ Len(ret.val) >= 1

\* C6: at every call site of the search engine (tiered_search, hybrid_search
\* with a provider, MemoryService.search) a Gateway call that raises makes the
\* operation complete with the keyword-only results and never raise.
C6_GatewayFailuresAbsorbed ==
    (/\ ret.op \in {"tiered_search", "hybrid_search", "search"}
     /\ \E i \in 1..Len(ret.calls) : ret.calls[i] = "embed raised")
    => ret.exc = "" /\ ret.val = KeywordOnly

\* the last search used keyword results only
KeywordOnlySearch ==
    \/ ret.op \in {"tiered_search", "hybrid_search"} /\ ~ret.args
    \/ ret.op = "tiered_search" /\ Len(KeywordResults) >= MinFtsResults

\* C7: the results of a keyword-only search (tiered_search without a provider
\* or with dense results, hybrid_search without a provider) have scores in
\* [0,1] and are sorted by score descending.
C7_KeywordOnlyScores ==
    KeywordOnlySearch
    => /\ \A i \in 1..Len(ret.val) :
            RLe(Zero, ret.val[i].score) /\ RLe(ret.val[i].score, One)
       /\ \A i, j \in 1..Len(ret.val) :
            i < j => RLe(ret.val[j].score, ret.val[i].score)

\* hybrid_search without a provider returned two candidates, the second with
\* half the score of the first
C7_Witness ==
    /\ ret.op = "hybrid_search"
    /\ ~ret.args
    /\ Len(ret.val) = 2
    /\ ret.val[1].score = One
    /\ ret.val[2].score = <<1, 2>>

\* a / b for b # 0
RQuot(a, b) ==
    IF b[1] < 0 THEN Rat(-(a[1] * b[2]), a[2] * (-b[1])) ELSE Rat(a[1] * b[2], a[2] * b[1])

\* the score of id in the list divided by the list's maximum (0 for a list of
\* zeros), <<>> when id is not in the list
ScoreOverMax(list, id) ==
    IF IndexOf(list, id) = 0 THEN <<>>
    ELSE IF RMaxOf(list) = Zero THEN <<Zero>>
    ELSE <<RQuot(list[IndexOf(list, id)].score, RMaxOf(list))>>

\* weight * x for a list's contribution x, 0 when there is none
Term(weight, x) == IF x = <<>> THEN Zero ELSE RMul(weight, x[1])

\* C8: every combined score of merge_results lies in [0, fts_weight +
\* vec_weight], and a record of both lists scores at least vec_weight times its
\* normalized vector score.
C8_MergeScoreBounds ==
    ret.op = "merge_results"
    => \A i \in 1..Len(ret.val) :
         /\ RLe(Zero, ret.val[i].score)
         /\ RLe(ret.val[i].score, RAdd(FtsWeight, VecWeight))
         /\ (IndexOf(KeywordResults, ret.val[i].id) # 0
             /\ IndexOf(VectorResults, ret.val[i].id) # 0)
            => RLe(Term(VecWeight, ScoreOverMax(VectorResults, ret.val[i].id)),
                   ret.val[i].score)

\* the combined score the formula of C9 gives id
FormulaScore(id) ==
    RAdd(Term(FtsWeight, ScoreOverMax(KeywordResults, id)),
         Term(VecWeight, ScoreOverMax(VectorResults, id)))

MergedIds ==
    {KeywordResults[i].id : i \in 1..Len(KeywordResults)}
    \cup {VectorResults[i].id : i \in 1..Len(VectorResults)}

\* C9: merge_results returns one entry per identifier of the two lists, with
\* score fts_weight * (fts score / max fts score) + vec_weight * (vec score /
\* max vec score), a record of one list getting that list's term only, sorted
\* by score descending and cut to `limit`.
C9_MergeFormula ==
    ret.op = "merge_results"
    => /\ Len(ret.val) = IF Cardinality(MergedIds) < limit
                         THEN Cardinality(MergedIds) ELSE limit
       /\ \A i \in 1..Len(ret.val) :
            /\ ret.val[i].id \in MergedIds
            /\ ret.val[i].score = FormulaScore(ret.val[i].id)
            /\ \A j \in 1..Len(ret.val) :
                 /\ i < j => RLe(ret.val[j].score, ret.val[i].score)
                 /\ i # j => ret.val[i].id # ret.val[j].id
            /\ \A id \in MergedIds :
                 (\A j \in 1..Len(ret.val) : ret.val[j].id # id)
                 => RLe(FormulaScore(id), ret.val[i].score)

\* ------------------------------------------ the vector index, continued (VecSpec)
\* C11: ensure_vec_table(d) called when d is the recorded dimension, as it is
\* after a first ensure_vec_table(d) that did not raise, raises nothing and
\* leaves the recorded dimension, the index and its vectors as they were.
C11_EnsureIdempotent ==
    /\ []((ret.op = "ensure_vec_table" /\ ret.exc = "")
            => get_embedding_dim(DB) = <<ret.args>>)
    /\ [][(ret'.op = "ensure_vec_table" /\ get_embedding_dim(DB) = <<ret'.args>>)
            => (/\ ret'.exc = ""
                /\ UNCHANGED <<meta, vec_tables, memories, memory_details,
                               memories_fts>>)]_vars

\* ensure_vec_table returned on an index that already held a vector of that
\* dimension
C11_Witness ==
    /\ ret.op = "ensure_vec_table"
    /\ ret.exc = ""
    /\ VecRowids(DB) # {}
    /\ vec_tables["memories_vec"].dim = ret.args

\* the keyword search answers the same before and after the step
KeywordSearchUnchanged ==
    /\ MatchRows(DB', Query) = MatchRows(DB, Query)
    /\ \A sc \in [MatchRows(DB, Query) -> ScoreValues] :
         /\ fts_search(DB', Query, DefaultLimit, "", sc).exc = ""
         /\ fts_search(DB', Query, DefaultLimit, "", sc)
              = fts_search(DB, Query, DefaultLimit, "", sc)

\* an insert_vector whose vector has not the width of an index that holds vectors
WrongDimensionInsert ==
    /\ ret'.op = "insert_vector"
    /\ VecRowids(DB) # {}
    /\ ret'.args.len # vec_tables["memories_vec"].dim

\* C12: on a database holding vectors at dimension D, inserting a
\* vector of dimension D' # D raises DimensionMismatch(D, D') and stores
\* nothing, and keyword search returns what it returned before.
C12_WrongDimensionInsertRaisesMismatch ==
    [][WrongDimensionInsert
       => (/\ ret'.exc = "DimensionMismatch"
           /\ ret'.val = [stored_dim |-> vec_tables["memories_vec"].dim,
                          new_dim |-> ret'.args.len]
           /\ UNCHANGED <<meta, vec_tables, memories, memory_details, memories_fts>>
           /\ KeywordSearchUnchanged)]_vars

\* ------------------------------------------------ point lookups (db.py), Spec
\* EXISTS(SELECT 1 FROM memory_details WHERE memory_id = id)
HasDetails(db, id) == \E i \in 1..Len(db.memory_details) : db.memory_details[i].memory_id = id

\* SELECT m.*, has_details FROM memories m WHERE m.id = memory_id: <<>> is None
get_memory(db, memory_id) ==
    LET found(hits) ==
            IF hits = {} THEN <<>>
            ELSE <<[memory |-> db.memories[Min(hits)],
                    has_details |-> HasDetails(db, memory_id)]>>
    IN found({r \in DOMAIN db.memories : db.memories[r].id = memory_id})

\* SELECT memory_id, body FROM memory_details WHERE memory_id LIKE memory_id%,
\* fetchone(): the first row of the table that matches, <<>> is None
get_details(db, memory_id) ==
    LET found(hits) == IF hits = <<>> THEN <<>> ELSE <<hits[1]>>
    IN found(SelectSeq(db.memory_details, LAMBDA d : IsIdPrefix(memory_id, d.memory_id)))

\* a vector, all of whose distances to the stored vectors are 0
NearAll(db) == [r \in VecRowids(db) |-> Zero]

\* the rows the vector search returns for a query vector of the index's width
VectorSearchRows(db) ==
    IF ~has_vec_table(db) THEN {}
    ELSE LET res == vector_search(db, [len |-> db.vec_tables["memories_vec"].dim],
                                  MaxMem + 1, "", NearAll(db)).val
         IN {res[i].rowid : i \in 1..Len(res)}

\* fts_search(query) raises nothing and row is among the rows it returns
KeywordSearchFinds(db, row, query) ==
    LET found(res) == res.exc = "" /\ \E i \in 1..Len(res.val) : res.val[i].rowid = row
    IN found(fts_search(db, query, MaxMem + 1, "",
                        [q \in MatchRows(db, query) |-> 1]))

\* C13: after delete_memory returned True for record r, get_memory(r.id) and
\* get_details(r.id) are absent, the vector index holds no vector keyed by r's
\* row, and neither a keyword search nor a vector search returns r.
C13_DeleteCascades ==
    [][(ret'.op = "delete" /\ ret'.val = TRUE)
       => \A row \in DOMAIN memories \ DOMAIN memories' :
            /\ get_memory(DB', memories[row].id) = <<>>
            /\ get_details(DB', memories[row].id) = <<>>
            /\ ~KeywordSearchFinds(DB', row, memories[row].title)
            /\ row \notin VectorSearchRows(DB')
            /\ row \notin VecRowids(DB')]_vars

\* the prefixes of an identifier that are not empty
IdPrefixes(id) == {SubSeq(id, 1, n) : n \in 1..Len(id)}

\* no other stored identifier starts with p
Unshared(db, p, id) ==
    \A r \in DOMAIN db.memories :
        IsIdPrefix(p, db.memories[r].id) => db.memories[r].id = id

\* C14: a stored Memory with a Detail is returned, with its field values, by
\* get_memory and get_details for its full id and for every prefix of its id
\* that no other stored id shares; after its deletion both lookups, by the full
\* id and by that prefix, return absent.
C14_RoundTripByIdAndPrefix ==
    /\ [](\A row \in DOMAIN memories :
            HasDetails(DB, memories[row].id)
            => \A p \in IdPrefixes(memories[row].id) :
                 Unshared(DB, p, memories[row].id)
                 => /\ get_memory(DB, p)
                         = <<[memory |-> memories[row], has_details |-> TRUE]>>
                    /\ get_details(DB, p) # <<>>
                    /\ get_details(DB, p)[1].memory_id = memories[row].id)
    /\ [][(ret'.op = "delete" /\ ret'.val = TRUE)
          => \A row \in DOMAIN memories \ DOMAIN memories' :
               \A p \in IdPrefixes(memories[row].id) :
                 Unshared(DB', p, memories[row].id)
                 => get_memory(DB', p) = <<>> /\ get_details(DB', p) = <<>>]_vars

\* ------------------------------------------------- the update path of save, Spec
\* the row of the record a save returned
RowIn(db, id) == CHOOSE r \in DOMAIN db.memories : db.memories[r].id = id

\* C15: after a save that takes the update path, the record's what, why and
\* impact are the incoming values after redaction, whether the incoming memory
\* supplies a why and an impact or not.
C15_UpdateReplacesNarrative ==
    \A raw \in RawInputs, P \in Projects, g \in gateway :
        \A sc \in [ProbeRows(raw) -> ScoreValues] :
            LET r == save(DB, vectors_available, raw, P, g, sc)
            IN r.val.action = "updated"
               => /\ r.db.memories[RowIn(r.db, r.val.id)].what = Redacted(raw).what
                  /\ r.db.memories[RowIn(r.db, r.val.id)].why = Redacted(raw).why
                  /\ r.db.memories[RowIn(r.db, r.val.id)].impact = Redacted(raw).impact

\* the text the update path embeds for the record of row a and the incoming raw
MergedText(a, raw) ==
    EmbedText(memories[a].title, Redacted(raw).what, Redacted(raw).why,
              Redacted(raw).impact,
              TagsFollowedBy(JsonLoads(memories[a].tags), raw.tags))

\* C16: after a save that takes the update path while the Gateway returns a
\* vector of the active dimension, the index holds for the updated record the
\* embedding of the merged text (existing title, incoming what, why and impact,
\* merged tags), whether the record had a vector before the save or not.
C16_UpdateReEmbeds ==
    \A raw \in RawInputs, P \in Projects, g \in gateway :
        \A sc \in [ProbeRows(raw) -> ScoreValues] :
            LET r == save(DB, vectors_available, raw, P, g, sc)
            IN (/\ r.val.action = "updated"
                /\ g.ok
                /\ get_embedding_dim(DB) \in {<<>>, <<g.len>>})
               => /\ RowIn(DB, r.val.id) \in VecRowids(r.db)
                  /\ r.db.vec_tables["memories_vec"].rows[RowIn(DB, r.val.id)]
                       = Embed(g, MergedText(RowIn(DB, r.val.id), raw))

\* ------------------------------------------------ the create path of save, VecSpec
\* the Gateway's answer g is a failure for the store: it raised, or its vector
\* has not the recorded dimension
EmbeddingProblem(g) == ~g.ok \/ get_embedding_dim(DB) \notin {<<>>, <<g.len>>}

\* the record the save of raw into P creates, as the Store holds it
CreatedRow(raw, P) ==
    [id |-> IdOf(next_rowid), title |-> raw.title, what |-> Redacted(raw).what,
     why |-> Redacted(raw).why, impact |-> Redacted(raw).impact,
     tags |-> JsonDumps(raw.tags), project |-> P, updated_count |-> 0]

\* C17: when a save takes the create path and the Gateway raises or returns a
\* vector whose length is not the recorded dimension, the save returns
\* 'created' with the new id, the record and its Detail are stored and found by
\* keyword search, no vector is stored for it, and the recorded dimension and
\* the vectors are as before.  The step records the memory saved and the
\* Gateway's answer.  The keyword searches are those for the record's what and
\* for its title; a title holding a double quote is a query MATCH cannot run,
\* whatever the store holds.
C17_CreateSurvivesEmbeddingProblems ==
    [][(ret'.op = "save" /\ ret'.val.action = "created" /\ EmbeddingProblem(ret'.g))
       => \A raw \in {ret'.raw}, P \in {memories'[ret'.rowid].project} :
            /\ ret'.exc = ""
            /\ ret'.val.id = IdOf(next_rowid)
            /\ ret'.rowid = next_rowid
            /\ P \in VecProjects
            /\ DOMAIN memories' = DOMAIN memories \cup {next_rowid}
            /\ memories'[next_rowid] = CreatedRow(raw, P)
            /\ get_memory(DB', ret'.val.id)
                 = <<[memory |-> CreatedRow(raw, P),
                      has_details |-> Truthy(raw.details)]>>
            /\ Truthy(raw.details)
               => get_details(DB', ret'.val.id)
                    = <<[memory_id |-> ret'.val.id, body |-> Redacted(raw).details]>>
            /\ KeywordSearchFinds(DB', next_rowid, Redacted(raw).what)
            /\ ~FtsSyntaxError(raw.title)
               => KeywordSearchFinds(DB', next_rowid, raw.title)
            /\ \A k \in DOMAIN memories : memories'[k] = memories[k]
            /\ meta' = meta
            /\ vec_tables' = vec_tables
            /\ next_rowid \notin VecRowids(DB')]_vars

\* a save created a record with a Detail while the Gateway's vector had not the
\* recorded dimension: the record has no vector, an older one is still in the
\* index
C17_Witness ==
    /\ ret.op = "save"
    /\ ret.val.action = "created"
    /\ get_details(DB, ret.val.id) # <<>>
    /\ ret.g.ok
    /\ get_embedding_dim(DB) \notin {<<>>, <<ret.g.len>>}
    /\ vectors_available = "False"
    /\ RowOfId(ret.val.id) \notin VecRowids(DB)
    /\ VecRowids(DB) # {}
    /\ KeywordSearchFinds(DB, RowOfId(ret.val.id), memories[RowOfId(ret.val.id)].title)

\* ------------------------------------------------------ the dedup probe, Spec
\* the probe of save for raw in project P
Probe(raw, P, sc) == fts_search(DB, DedupQuery(Redacted(raw)), DedupLimit, P, sc)

\* C18: when the keyword probe of a save returns no candidates, or raises, the
\* save returns 'created', adds exactly one record with a fresh identifier and
\* changes no existing record.
C18_DedupBestEffort ==
    \A raw \in RawInputs, P \in Projects, g \in gateway :
        \A sc \in [ProbeRows(raw) -> ScoreValues] :
            LET r == save(DB, vectors_available, raw, P, g, sc)
            IN (Probe(raw, P, sc).exc # "" \/ Probe(raw, P, sc).val = <<>>)
               => /\ r.exc = ""
                  /\ r.val.action = "created"
                  /\ \A k \in DOMAIN memories : memories[k].id # r.val.id
                  /\ DOMAIN r.db.memories = DOMAIN memories \cup {next_rowid}
                  /\ next_rowid \notin DOMAIN memories
                  /\ r.db.memories[next_rowid].id = r.val.id
                  /\ \A k \in DOMAIN memories : r.db.memories[k] = memories[k]
                  /\ \A i \in 1..Len(memory_details) :
                       r.db.memory_details[i] = memory_details[i]

\* a save whose probe raised created a second record with the title of the
\* first, in the same project; the first was not changed
C18_Witness ==
    /\ ret.op = "save"
    /\ ret.val.action = "created"
    /\ FtsSyntaxError(memories[RowOfId(ret.val.id)].title)
    /\ \E k \in DOMAIN memories :
         /\ k # RowOfId(ret.val.id)
         /\ memories[k].title = memories[RowOfId(ret.val.id)].title
         /\ memories[k].project = memories[RowOfId(ret.val.id)].project
         /\ memories[k].updated_count = 0

\* ------------------------------------------------------------ redaction, Spec
NoSecret(text) == \A i \in 1..Len(OrEmpty(text)) : OrEmpty(text)[i] \notin SecretWords

\* C20: every free-text field a save hands to the Store and the keyword index
\* (title, what, why, impact, details) and the dedup probe string have passed
\* through redact: they are the redacted input and hold no secret.
C20_RedactionBeforeStorage ==
    /\ \A k \in DOMAIN memories :
         /\ NoSecret(memories[k].title) /\ NoSecret(memories[k].what)
         /\ NoSecret(memories[k].why) /\ NoSecret(memories[k].impact)
         /\ NoSecret(memories_fts[k].title) /\ NoSecret(memories_fts[k].what)
    /\ \A i \in 1..Len(memory_details) : NoSecret(memory_details[i].body)
    /\ \A raw \in RawInputs, P \in Projects, g \in gateway :
         \A sc \in [ProbeRows(raw) -> ScoreValues] :
            LET r == save(DB, vectors_available, raw, P, g, sc)
            IN /\ NoSecret(DedupQuery(Redacted(raw)))
               /\ DedupQuery(Redacted(raw)) = Redact(raw.title) \o <<WS>> \o Redact(raw.what)
               /\ r.val.action = "created"
                  => /\ r.db.memories[next_rowid].title = Redact(raw.title)
                     /\ r.db.memories[next_rowid].what = Redact(raw.what)

\* ---------------------------------------------------------- reindex, VecSpec
\* the text reindex embeds for the memory of a row
ReindexText(row) ==
    EmbedText(memories[row].title, memories[row].what, memories[row].why,
              memories[row].impact, JsonLoads(memories[row].tags))

\* the recorded dimension is the one reindex reports, the index exists at that
\* width, every stored memory has one vector of that length, the embedding of
\* its text, no vector belongs to a row that is not a stored memory, the
\* reported count is the number of stored memories, and the service takes the
\* vectors to be available
RebuiltTotally ==
    /\ get_embedding_dim(DB) = <<ret.val.dim>>
    /\ has_vec_table(DB)
    /\ vec_tables["memories_vec"].dim = ret.val.dim
    /\ VecRowids(DB) = DOMAIN memories
    /\ \A row \in DOMAIN memories :
         vec_tables["memories_vec"].rows[row]
           = [len |-> ret.val.dim, of |-> ReindexText(row)]
    /\ ret.val.count = Cardinality(DOMAIN memories)
    /\ vectors_available = "True"

\* C19: after reindex returned with a Gateway of dimension D, from any prior
\* state, the recorded dimension is D, the index exists at width D, every stored
\* memory has one vector of length D, the embedding of its text, no vector
\* belongs to a row that is not a stored memory, and the reported count is the
\* number of stored memories.
C19_TotalRebuild ==
    (ret.op = "reindex" /\ ~Reindexing /\ ret.exc = "") => RebuiltTotally

\* C19 amended: the same of a reindex whose progress callback called no
\* operation of the service.  reindex commits step by step and hands control to
\* progress_callback after every record; a save or a delete from inside the
\* callback is an operation begun before reindex ran to completion.
C19_TotalRebuildWhenNotReentered ==
    (ret.op = "reindex" /\ ~Reindexing /\ ret.exc = "" /\ ~ret.frame.reentered)
    => RebuiltTotally

\* reindex returned on a store from which a record had been deleted: the index
\* holds the vector of the one memory left
C19_Witness ==
    /\ ret.op = "reindex"
    /\ ~Reindexing
    /\ ret.exc = ""
    /\ ~ret.frame.reentered
    /\ ret.val.count = 1
    /\ next_rowid = 3
    /\ VecRowids(DB) = DOMAIN memories
\* ------------------------------------------------- the Store's records, StoreSpec
MaxStoreUpdates == 2

\* the memories insert_memory is called with: Memory.from_raw gives each a new id
StoreMems(rowid) ==
    {[id |-> IdOf(rowid), title |-> <<"Fix", "auth">>, what |-> <<"session">>,
      why |-> <<"legacy">>, impact |-> None, tags |-> <<"auth">>, project |-> "a"]}

StoreDetails == {None, <<"log">>}

\* the identifiers update_memory and delete_memory are called with: the empty
\* string, the unknown identifier 99, the string "%", the first character of the
\* first identifier in upper case, whole identifiers and their first characters
StoreIds ==
    {<<>>, <<57, 57>>, <<AnyRun>>, <<IdOf(1)[1] - 32>>}
    \cup {IdOf(i) : i \in 1..MaxMem}
    \cup {<<IdOf(i)[1]>> : i \in 1..MaxMem}

\* the arguments of update_memory, None when the argument is not supplied
UpdateArgs ==
    {[what |-> what, why |-> why, impact |-> None, tags |-> tags,
      details_append |-> details_append] :
        what \in {None, <<"refresh">>}, why \in {None, <<"sso">>},
        tags \in {None, <<"db">>}, details_append \in {None, <<>>, <<"more">>}}

\* the arguments the steps of StoreSpec call update_memory with: those that
\* leave why as it is, a field update_memory treats as it treats what
StepUpdateArgs == {a \in UpdateArgs : a.why = None}

\* the Gateway is not used by the Store's own operations
StoreInit ==
    /\ uuids \in UuidRuns
    /\ Opened
    /\ gateway = {[ok |-> FALSE, len |-> 0]}

InsertMemory ==
    \E mem \in StoreMems(next_rowid), details \in StoreDetails :
        \E r \in {insert_memory(DB, mem, details)} :
            /\ next_rowid <= MaxMem
            /\ Commit(r.db)
            /\ ret' = [op |-> "insert_memory", exc |-> r.exc, val |-> r.val]
            /\ UNCHANGED <<vectors_available, gateway, rank, distance, limit, uuids,
                           reindexing>>

UpdateMemory ==
    \E memory_id \in StoreIds, a \in StepUpdateArgs :
        \E r \in {update_memory(DB, memory_id, a.what, a.why, a.impact, a.tags,
                                a.details_append)} :
            /\ \A k \in DOMAIN r.db.memories :
                    r.db.memories[k].updated_count <= MaxStoreUpdates
            /\ Commit(r.db)
            /\ ret' = [op |-> "update_memory", exc |-> r.exc, val |-> r.val]
            /\ UNCHANGED <<vectors_available, gateway, rank, distance, limit, uuids,
                           reindexing>>

DeleteMemory ==
    \E memory_id \in StoreIds :
        \E r \in {delete_memory(DB, memory_id)} :
            /\ Commit(r.db)
            /\ ret' = [op |-> "delete_memory", exc |-> r.exc, val |-> r.val]
            /\ UNCHANGED <<vectors_available, gateway, rank, distance, limit, uuids,
                           reindexing>>

StoreNext ==
    \/ InsertMemory
    \/ UpdateMemory
    \/ DeleteMemory

StoreSpec == StoreInit /\ [][StoreNext]_vars

\* ------------------------------------------------------- the update counter, Spec
\* the record a save updated in the step, by its id
UpdatedBySave(id) ==
    ret'.op = "save" /\ ret'.val.action = "updated" /\ ret'.val.id = id

\* update_memory(memory_id, ...) counted one update for exactly one record, one
\* that memory_id addresses, when it returned True, and none when it did not
CountsOneUpdate(r, memory_id) ==
    IF r.val
    THEN /\ DOMAIN r.db.memories = DOMAIN memories
         /\ \E target \in DOMAIN memories :
              /\ IsIdPrefix(memory_id, memories[target].id)
              /\ r.db.memories[target].updated_count
                   = memories[target].updated_count + 1
              /\ \A row \in DOMAIN memories \ {target} :
                   r.db.memories[row].updated_count = memories[row].updated_count
    ELSE r.db.memories = memories

\* C21: a record's updated_count is 0 right after its creation, a save that takes
\* the update path and a successful update_memory add exactly 1 to the count of
\* the record they update, and no other step changes or lowers a count.
C21_UpdateCounter ==
    /\ [](\A memory_id \in StoreIds, a \in UpdateArgs :
            CountsOneUpdate(update_memory(DB, memory_id, a.what, a.why, a.impact,
                                          a.tags, a.details_append), memory_id))
    /\ [][/\ \A row \in DOMAIN memories' \ DOMAIN memories :
                memories'[row].updated_count = 0
          /\ \A row \in DOMAIN memories' \cap DOMAIN memories :
                memories'[row].updated_count
                  = memories[row].updated_count
                    + (IF UpdatedBySave(memories[row].id) THEN 1 ELSE 0)]_vars

\* a save has updated a record whose count is now 1, beside a record never updated
C21_Witness ==
    /\ ret.op = "save"
    /\ ret.val.action = "updated"
    /\ \E row \in DOMAIN memories :
          memories[row].id = ret.val.id /\ memories[row].updated_count = 1
    /\ \E row \in DOMAIN memories : memories[row].updated_count = 0

\* ------------------------------------------------------------ tag lists, Spec
\* no two tags of the list are equal when case is ignored
TagsUnique(tags) ==
    \A i, j \in 1..Len(tags) : Lower(tags[i]) = Lower(tags[j]) => i = j

\* C22: in every state reached by create-path and update-path saves, no stored
\* record's tag list holds two tags that are equal under case-insensitive
\* comparison.
C22_TagSetUniqueness ==
    \A row \in DOMAIN memories : TagsUnique(JsonLoads(memories[row].tags))

\* ------------------------------------------------------ the match condition, Spec
\* row top is the best candidate of the probe of raw among the records of
\* project P, its score is at least 0.7 of the denominator (the best score of
\* the probe over all projects when it is the only candidate of P, else the best
\* score among the candidates of P), and its title is raw's up to case and
\* surrounding whitespace
MatchCondition(top, raw, P, sc) ==
    LET cands == {q \in ProbeRows(raw) : memories[q].project = P}
        broad == IF Cardinality(cands) = 1 THEN ProbeRows(raw) ELSE cands
    IN /\ ~FtsSyntaxError(DedupQuery(Redacted(raw)))
       /\ top \in cands
       /\ \A q \in cands : sc[q] < sc[top] \/ (sc[q] = sc[top] /\ top <= q)
       /\ \A q \in broad : 7 * sc[q] <= 10 * sc[top]
       /\ TitleEq(raw.title, memories[top].title)

\* C23: a save takes the update path, and updates the top candidate, if and
\* only if the project-filtered probe returns a candidate, the top candidate's
\* score divided by the denominator is at least 0.7 and the incoming title
\* equals the top candidate's title under case-insensitive, whitespace-trimmed
\* comparison; otherwise it takes the create path.
C23_MatchCondition ==
    \A raw \in RawInputs, P \in Projects, g \in gateway :
        \A sc \in [ProbeRows(raw) -> ScoreValues] :
            LET r == save(DB, vectors_available, raw, P, g, sc)
            IN /\ r.val.action \in {"updated", "created"}
               /\ r.val.action = "updated"
                    <=> \E top \in DOMAIN memories : MatchCondition(top, raw, P, sc)
               /\ \A top \in DOMAIN memories :
                    MatchCondition(top, raw, P, sc) => r.val.id = memories[top].id

\* --------------------------------------------------------- the Detail body, Spec
\* the body of the Detail of the record id: <<>> when it has none, else <<body>>
BodyOf(db, id) ==
    LET first(rows) == IF rows = <<>> THEN <<>> ELSE <<rows[1].body>>
    IN first(SelectSeq(db.memory_details, LAMBDA d : d.memory_id = id))

\* body old has become new by an update with the appended text d
Grown(old, new, d) ==
    IF ~Truthy(d) THEN new = old
    ELSE IF old = <<>> THEN new = <<d>>
         ELSE /\ new = <<old[1] \o <<"\n\n">> \o d>>
              /\ SubSeq(new[1], 1, Len(old[1])) = old[1]

\* C24: an update of a record with a non-empty appended text d turns the body b
\* of its Detail into b, a blank line and d, or creates the Detail with body d
\* when there is none, so the old body is a prefix of the new one; an update
\* without appended text, and an update of another record, leave the Detail as
\* it is.  The update path of save appends the dated block of the incoming details.
C24_DetailAppendOnly ==
    /\ \A memory_id \in StoreIds, a \in UpdateArgs :
         \A r \in {update_memory(DB, memory_id, a.what, a.why, a.impact, a.tags,
                                 a.details_append)} :
            \A row \in DOMAIN memories :
              IF r.db.memories[row].updated_count # memories[row].updated_count
              THEN Grown(BodyOf(DB, memories[row].id), BodyOf(r.db, memories[row].id),
                         a.details_append)
              ELSE BodyOf(r.db, memories[row].id) = BodyOf(DB, memories[row].id)
    /\ \A raw \in RawInputs, P \in Projects, g \in gateway :
         \A sc \in [ProbeRows(raw) -> ScoreValues] :
            \A r \in {save(DB, vectors_available, raw, P, g, sc)} :
               r.val.action = "updated"
               => \A row \in DOMAIN memories :
                    IF memories[row].id = r.val.id
                    THEN Grown(BodyOf(DB, r.val.id), BodyOf(r.db, r.val.id),
                               IF Truthy(raw.details)
                               THEN <<"--- updated today ---\n">> \o Redact(raw.details)
                               ELSE None)
                    ELSE BodyOf(r.db, memories[row].id) = BodyOf(DB, memories[row].id)

\* a save has appended its dated block to the Detail its record already had
C24_Witness ==
    /\ ret.op = "save"
    /\ ret.val.action = "updated"
    /\ BodyOf(DB, ret.val.id)
         = <<(<<"log", "\n\n", "--- updated today ---\n", "log">>)>>

\* ------------------------------------------------- the frame of update_memory, StoreSpec
\* the field of the row is the supplied value, or as before when none is supplied
Replaced(old, new, supplied) == IF supplied # None THEN new = supplied ELSE new = old

\* the text id begins with the text p
StartsWith(id, p) == Len(p) <= Len(id) /\ SubSeq(id, 1, Len(p)) = p

\* what update_memory(id, a) has made of the record of row target
SparseUpdate(r, target, a) ==
    /\ r.val = TRUE
    /\ DOMAIN r.db.memories = DOMAIN memories
    /\ \A row \in DOMAIN memories \ {target} :
          /\ r.db.memories[row] = memories[row]
          /\ r.db.memories_fts[row] = memories_fts[row]
          /\ BodyOf(r.db, memories[row].id) = BodyOf(DB, memories[row].id)
    /\ r.db.memories[target].id = memories[target].id
    /\ r.db.memories[target].title = memories[target].title
    /\ r.db.memories[target].project = memories[target].project
    /\ r.db.memories[target].updated_count = memories[target].updated_count + 1
    /\ Replaced(memories[target].what, r.db.memories[target].what, a.what)
    /\ Replaced(memories[target].why, r.db.memories[target].why, a.why)
    /\ Replaced(memories[target].impact, r.db.memories[target].impact, a.impact)
    /\ Replaced(memories[target].tags, r.db.memories[target].tags,
                IF a.tags # None THEN JsonDumps(a.tags) ELSE None)
    /\ a.details_append = None => r.db.memory_details = memory_details
    /\ r.db.meta = meta
    /\ r.db.vec_tables = vec_tables
    /\ r.db.next_rowid = next_rowid

\* C25: update_memory with the identifier of a stored record changes, of that
\* record, only the supplied fields among what, why, impact, tags and detail and
\* the update counter; its id, title and project, its unsupplied fields and every
\* other record are as before; with an unknown identifier, one that no stored
\* identifier starts with, it returns False and changes nothing.
C25_SparseUpdateFrame ==
    \A memory_id \in StoreIds, a \in UpdateArgs :
        LET r == update_memory(DB, memory_id, a.what, a.why, a.impact, a.tags,
                               a.details_append)
        IN /\ \A target \in DOMAIN memories :
                memories[target].id = memory_id => SparseUpdate(r, target, a)
           /\ (\A row \in DOMAIN memories : ~StartsWith(memories[row].id, memory_id))
                => r.val = FALSE /\ r.db = DB

\* -------------------------------------------------- addressing by prefix, StoreSpec
\* the rows whose identifier begins with p
Addressed(p) == {row \in DOMAIN memories : StartsWith(memories[row].id, p)}

\* the rows of the store that db no longer holds as they were
ChangedRows(db) ==
    {row \in DOMAIN memories : row \notin DOMAIN db.memories
                                \/ db.memories[row] # memories[row]}

\* C26: delete_memory(p) and update_memory(p, ...) change a record only if p is
\* that record's full identifier or a prefix of it that no other stored
\* identifier shares; when p is a prefix of two or more stored identifiers, the
\* empty string included, no record is deleted or updated.
C26_PrefixAddressingUnambiguous ==
    \A p \in StoreIds, a \in UpdateArgs :
        \A r \in {update_memory(DB, p, a.what, a.why, a.impact, a.tags,
                                a.details_append),
                  delete_memory(DB, p)} :
            /\ \A row \in ChangedRows(r.db) :
                  memories[row].id = p \/ Addressed(p) = {row}
            /\ Cardinality(Addressed(p)) >= 2 => ChangedRows(r.db) = {}

\* ------------------------------------------------------- the keyword index, StoreSpec
\* the words the stored and the replacing field values are made of
SearchTerms == {"fix", "auth", "session", "legacy", "refresh", "sso", "db", "a"}

\* the rows a keyword search for term returns
SearchHits(term) ==
    LET ids(res) == {res[i].rowid : i \in 1..Len(res)}
    IN ids(fts_search(DB, <<term>>, MaxMem + 1, "",
                      [r \in MatchRows(DB, <<term>>) |-> 1]).val)

\* C27: after any sequence of insert_memory, update_memory and delete_memory the
\* keyword index has an entry for a row if and only if the row is in the memory
\* collection, the entry holds the row's current field values, and a keyword
\* search returns no row whose current field values do not hold the term (so
\* none for a term that occurs only in a replaced value or a deleted record).
C27_KeywordIndexInSync ==
    /\ DOMAIN memories_fts = DOMAIN memories
    /\ \A row \in DOMAIN memories : memories_fts[row] = FtsColumns(memories[row])
    /\ \A term \in SearchTerms :
          \A row \in SearchHits(term) :
              /\ row \in DOMAIN memories
              /\ \E t \in WordTokens(term),
                    tok \in RowTokens(FtsColumns(memories[row])) : IsPrefix(t, tok)

\* ------------------------------------------------- an interrupted rebuild, VecSpec
\* the index holds one vector of length d, the embedding of its text, for
\* every row of rows, and no other vector
HoldsVectorsOf(db, rows, d) ==
    /\ has_vec_table(db)
    /\ db.vec_tables["memories_vec"].dim = d
    /\ VecRowids(db) = rows
    /\ \A row \in rows :
          db.vec_tables["memories_vec"].rows[row] = [len |-> d, of |-> ReindexText(row)]

\* the rows the loop of the reindex that ended had gone through
Processed == {ret.frame.memories[k].rowid : k \in 1..ret.frame.i}

\* the last operation was a reindex whose probe succeeded and that ended, by
\* return or by exception
ReindexEnded == ret.op = "reindex" /\ ~Reindexing /\ ret.probed

\* C28: a reindex whose probe succeeded and that a failure of the Gateway at
\* some record ends raises the failure and leaves the new dimension recorded and
\* vectors only for the records before that one; a reindex that completes,
\* after such a one or not, leaves one vector per stored memory and no other; a
\* reindex whose probe fails raises the failure and changes nothing.
C28_InterruptedRebuild ==
    /\ []((ReindexEnded /\ ret.exc = "GatewayError")
            => /\ get_embedding_dim(DB) = <<ret.frame.dim>>
               /\ HoldsVectorsOf(DB, Processed, ret.frame.dim)
               /\ Processed # DOMAIN memories)
    /\ []((ReindexEnded /\ ret.exc = "")
            => /\ get_embedding_dim(DB) = <<ret.val.dim>>
               /\ HoldsVectorsOf(DB, DOMAIN memories, ret.val.dim))
    /\ [][(ret'.op = "reindex" /\ ~ret'.probed)
            => /\ ret'.exc = "GatewayError"
               /\ UNCHANGED <<memories, memory_details, memories_fts, meta,
                              vec_tables, next_rowid, vectors_available>>]_vars

\* C28 amended: the same of the reindex calls whose progress callback called no
\* operation of the service; the step at which the Gateway fails changes
\* nothing, so what the steps before it committed stays.
C28_InterruptedRebuildWhenNotReentered ==
    /\ []((ReindexEnded /\ ~ret.frame.reentered /\ ret.exc = "GatewayError")
            => /\ get_embedding_dim(DB) = <<ret.frame.dim>>
               /\ HoldsVectorsOf(DB, Processed, ret.frame.dim)
               /\ Processed # DOMAIN memories)
    /\ []((ReindexEnded /\ ~ret.frame.reentered /\ ret.exc = "")
            => /\ get_embedding_dim(DB) = <<ret.val.dim>>
               /\ HoldsVectorsOf(DB, DOMAIN memories, ret.val.dim))
    /\ [][(ret'.op = "reindex" /\ ~ret'.probed)
            => /\ ret'.exc = "GatewayError"
               /\ UNCHANGED <<memories, memory_details, memories_fts, meta,
                              vec_tables, next_rowid, vectors_available>>]_vars
    /\ [][(Reindexing /\ ret'.op = "reindex" /\ ~Reindexing' /\ ret'.exc = "GatewayError")
            => UNCHANGED <<memories, memory_details, memories_fts, meta,
                           vec_tables, next_rowid, vectors_available>>]_vars

\* a reindex whose probe succeeded raised the Gateway's failure at the second of
\* two memories: the index holds the vector of the first alone
C28_Witness ==
    /\ ReindexEnded
    /\ ~ret.frame.reentered
    /\ ret.exc = "GatewayError"
    /\ Cardinality(DOMAIN memories) = 2
    /\ has_vec_table(DB)
    /\ VecRowids(DB) = {Min(DOMAIN memories)}
    /\ get_embedding_dim(DB) = <<vec_tables["memories_vec"].dim>>

\* ------------------------------------------------ the projects and the dedup, Spec
\* the store after delete_memory of every record of a project other than P
RECURSIVE WithoutOthers(_, _)
WithoutOthers(db, P) ==
    LET others == {row \in DOMAIN db.memories : db.memories[row].project # P}
    IN IF others = {} THEN db
       ELSE WithoutOthers(delete_memory(db, db.memories[Min(others)].id).db, P)

\* C29: the dedup decision of a save into project P depends only on the records
\* of P: in the store and in the store without the records of the other
\* projects, where the probe gives the records of P the same scores, the same
\* incoming memory saved into P yields the same action and the same record.
C29_DedupDependsOnProjectOnly ==
    \A raw \in RawInputs, P \in Projects, g \in gateway :
        \A sc \in [ProbeRows(raw) -> ScoreValues] :
            LET alone == WithoutOthers(DB, P)
                r1 == save(DB, vectors_available, raw, P, g, sc)
                r2 == save(alone, vectors_available, raw, P, g,
                           [q \in MatchRows(alone, DedupQuery(Redacted(raw))) |-> sc[q]])
            IN r1.val = r2.val

\* ------------------------------------------- the dimension and the index, VecSpec
\* C30: in every state reached by ensure_vec_table, drop_vec_table,
\* set_embedding_dim, insert_vector, save and reindex, a recorded embedding
\* dimension implies that the vector index exists; so whenever
\* ensure_vec_table(d) returns without error, has_vec_table() is true and a
\* following insert_vector of a vector of length d for a memory without a
\* vector is stored.
C30_RecordedDimensionImpliesIndex ==
    /\ get_embedding_dim(DB) # <<>> => has_vec_table(DB)
    /\ \A d \in Dims :
          \A e \in {ensure_vec_table(DB, d)} :
              e.exc = ""
              => /\ has_vec_table(e.db)
                 /\ \A rowid \in DOMAIN memories \ VecRowids(e.db) :
                       rowid \in VecRowids(insert_vector(e.db, rowid,
                                                         [len |-> d, of |-> <<>>]).db)

=============================================================================
